---- MODULE Spec2Model ----
(***************************************************************************)
(* A model of the goloquent statement builder (src/builder.go), the        *)
(* logical database handle (src/db.go), the mysql dialect                  *)
(* (src/unnamed/part_001) and the connection registry (src/db/conn.go).    *)
(*                                                                         *)
(* SQL text is modelled as a sequence of tokens, the placeholder marker    *)
(* being the token "?"; the argument list is a sequence of values.         *)
(***************************************************************************)
EXTENDS Integers, Sequences, FiniteSets, TLC

VARIABLES
    \* ---- transaction orchestration (builder.runInTransaction) ----
    sqlCommon,   \* what the receiver's client holds: "sqlDB" (begin-capable) or "sqlTx"
    dialectDB,   \* the client the dialect object executes on (dialect.SetDB in NewDB)
    txdb,        \* the handle passed to the callback: [client, dialect], or NoDB
    tx,          \* the sql.Tx: "none", "active", "committed", "rolledback", "commitfailed"
    pc,          \* position of runInTransaction: "start", "callback", "returned"
    cbRet,       \* how the callback ended: Pending, Nil, Err(e) or Panic(p)
    ritRet,      \* what runInTransaction gave its caller: Pending, Nil, Err(e), or
                 \* Panic(p) when a panic leaves the call
    txCalls,     \* the calls made on the sql.Tx / sql.DB, in order, with their results
    stmts,       \* the statements executed inside the callback, with their connection
    nested,      \* what a RunInTransaction called inside the callback gave back
    \* ---- builder operations on one handle ----
    cols,        \* e.Columns(): the entity's ordered column list
    omitFields,  \* the fields handed to DB.Omit before the call
    rows,        \* the rows of the model collection: [key, fail]
    softDelete,  \* e.hasSoftDelete()
    scope,       \* b.query: the scope the builder compiles
    arg,         \* the operation's own input (update value, cursor, ...)
    mop,         \* the operation applied, "none" before it
    mret,        \* what the operation gave its caller
    sent,        \* the statements handed to the connection, in order
    conflict,    \* the call of dialect.OnConflictUpdate: [called, cols]
    populated,   \* whether the operation wrote rows into the caller's model
    dialect,     \* the driver of the handle's dialect: "mysql" or "postgres"
    schema,      \* the database's table of the model: [exists, cols, idxs]
    receiver,    \* the handle DB.Omit is called on: [client, dialect, omits]
    returned,    \* the handle DB.Omit returned, NoHandle before the call
    \* ---- the connection registry (src/db/conn.go) ----
    connPool,    \* the sync.Map: driver -> the plain map stored for it, 0 when none
    pools,       \* the plain maps made by the calls: map -> the databases it holds
    defaultDB,   \* the package variable defaultDB: the handle last assigned, 0 when none
    openReq,     \* the driver each Open call is made with (its database is its own)
    openPc,      \* position of each Open call
    openPool,    \* each call's local variable pool: the plain map it holds
    race         \* whether two calls accessed a plain map or defaultDB at the same time

txVars == <<sqlCommon, dialectDB, txdb, tx, pc, cbRet, ritRet, txCalls, stmts, nested>>

mutVars == <<cols, omitFields, rows, softDelete, scope, arg, mop, mret, sent, conflict,
             populated, dialect, schema, receiver, returned>>

openVars == <<connPool, pools, defaultDB, openReq, openPc, openPool, race>>

nonTxVars == <<mutVars, openVars>>

nonMutVars == <<txVars, openVars>>

nonOpenVars == <<txVars, mutVars>>

vars == <<txVars, mutVars, openVars>>

----------------------------------------------------------------------------
(* Bounds *)

MaxStmts == 3
MaxRows == 2
MaxOpens == 3
MaxTables == 3

----------------------------------------------------------------------------
(* Transaction orchestration: src/builder.go 1107-1128, src/db.go 173-195  *)

NoDB == [client |-> "none", dialect |-> "none"]

\* A DB handle with its omission list (src/db.go 161-169); the list is a set,
\* as DB.Omit reads it through a dictionary.
Handle(client, d, omits) == [client |-> client, dialect |-> d, omits |-> omits]

NoHandle == Handle("none", "none", {})

DefaultHandle == Handle("sqlDB", "mysql", {})

\* The table of the model in the database: none before the first migration.
NoTable == [exists |-> FALSE, cols |-> <<>>, idxs |-> {}]

\* What a call gives back: nothing yet, a nil error, an error, or a panic that
\* leaves the call.
Pending == [kind |-> "pending", val |-> ""]
Nil == [kind |-> "nil", val |-> ""]
Err(e) == [kind |-> "error", val |-> e]
Panic(p) == [kind |-> "panic", val |-> p]

CallbackErrors == {"cbErr1", "cbErr2"}
PanicValues == {"boom"}

\* NewDB: the client wraps the connection and the dialect is pointed at that
\* client (dialect.SetDB(client)).
NewDB(conn) == [db |-> [client |-> conn, dialect |-> "mysql"], dialectDB |-> conn]

\* DB.clone: copies client and dialect (the same dialect object).
clone(db) == [client |-> db.client, dialect |-> db.dialect]

TxDone(t) == t \in {"committed", "rolledback", "commitfailed"}

\* A rollback that does not look at the done flag.
RollbackAlways(t) == IF t = "none" THEN t ELSE "rolledback"

\* sql.Tx.Rollback: a finished transaction is left alone (ErrTxDone).
Rollback(t) == IF TxDone(t) \/ t = "none" THEN t ELSE "rolledback"

RollbackResult(t) == IF TxDone(t) \/ t = "none" THEN "ErrTxDone" ELSE "ok"

\* sql.Tx.Commit: ok says whether the driver's commit succeeds.
Commit(t, ok) ==
    IF TxDone(t) \/ t = "none" THEN t
    ELSE IF ok THEN "committed" ELSE "commitfailed"

CommitResult(t, ok) ==
    IF TxDone(t) \/ t = "none" THEN "ErrTxDone"
    ELSE IF ok THEN "ok" ELSE "errCommit"

\* The deferred closure of runInTransaction: recover() stops a panic; a second
\* rollback is then deferred. The function has an unnamed result, so a
\* recovered panic leaves the call returning the zero error value.
RecoveredResult(panicking, ret) == IF panicking THEN Nil ELSE ret

\* The drivers GetDialect knows.
Drivers == {"mysql", "postgres"}

\* The Open calls; call p opens the database p.
Calls == 1..MaxOpens

\* The registry while no Open call is modelled.
OpenIdle ==
    /\ connPool = [d \in Drivers |-> 0]
    /\ pools = [m \in Calls |-> {}]
    /\ defaultDB = 0
    /\ openReq = [p \in Calls |-> "mysql"]
    /\ openPc = [p \in Calls |-> "idle"]
    /\ openPool = [p \in Calls |-> 0]
    /\ race = FALSE

\* The variables of the transaction while no transaction is modelled.
TxIdle ==
    /\ sqlCommon = "sqlDB"
    /\ dialectDB = "sqlDB"
    /\ txdb = [client |-> "none", dialect |-> "none"]
    /\ tx = "none"
    /\ pc = "idle"
    /\ cbRet = Pending
    /\ ritRet = Pending
    /\ txCalls = <<>>
    /\ stmts = <<>>
    /\ nested = Pending

\* The variables of the builder operations while none is modelled.
MutIdle ==
    /\ cols = <<>>
    /\ omitFields = {}
    /\ rows = <<>>
    /\ softDelete = FALSE
    /\ scope = <<>>
    /\ arg = <<>>
    /\ mop = "none"
    /\ mret = Pending
    /\ sent = <<>>
    /\ conflict = [called |-> FALSE, cols |-> <<>>]
    /\ populated = FALSE
    /\ dialect = "mysql"
    /\ schema = NoTable
    /\ receiver = DefaultHandle
    /\ returned = NoHandle

TxInit ==
    /\ sqlCommon \in {"sqlDB", "sqlTx"}
    /\ dialectDB = NewDB("sqlDB").dialectDB
    /\ txdb = NoDB
    /\ tx = "none"
    /\ pc = "start"
    /\ cbRet = Pending
    /\ ritRet = Pending
    /\ txCalls = <<>>
    /\ stmts = <<>>
    /\ nested = Pending
    /\ MutIdle
    /\ OpenIdle

\* A type assertion that takes every connection for a *sql.DB.
isSqlDBAny(conn) == TRUE

\* conn, isOk := b.db.client.sqlCommon.(*sql.DB) (line 1108): only the
\* database connection is begin-capable, a *sql.Tx is not.
isSqlDB(conn) == conn = "sqlDB"

\* lines 1108-1111: the client's connection is not a *sql.DB.
BeginUnsupported ==
    /\ pc = "start"
    /\ ~isSqlDB(sqlCommon)
    /\ pc' = "returned"
    /\ ritRet' = Err("errNoTransaction")
    /\ UNCHANGED <<sqlCommon, dialectDB, txdb, tx, cbRet, txCalls, stmts>>
    /\ UNCHANGED nested
    /\ UNCHANGED nonTxVars

\* lines 1112-1117: conn.Begin(), then the transaction-scoped clone.
Begin ==
    /\ pc = "start"
    /\ isSqlDB(sqlCommon)
    /\ \E ok \in BOOLEAN :
        IF ok
        THEN /\ tx' = "active"
             /\ txdb' = [clone(NewDB(sqlCommon).db) EXCEPT !.client = "sqlTx"]
             /\ pc' = "callback"
             /\ txCalls' = Append(txCalls, [call |-> "begin", res |-> "ok"])
             /\ UNCHANGED ritRet
        ELSE /\ pc' = "returned"
             /\ ritRet' = Err("errBegin")
             /\ txCalls' = Append(txCalls, [call |-> "begin", res |-> "err"])
             /\ UNCHANGED <<tx, txdb>>
    /\ UNCHANGED <<sqlCommon, dialectDB, cbRet, stmts>>
    /\ UNCHANGED nested
    /\ UNCHANGED nonTxVars

\* A statement the builder executes through the handle: newBuilder clones the
\* handle and the statement goes to b.db.client (src/builder.go 35-41, 722).
BuilderConn(db) == clone(db).client

\* A statement the dialect executes: s.db.ExecStmt (part_001 140, 202, 249).
DialectConn(db) == dialectDB

CbBuilderExec ==
    /\ pc = "callback"
    /\ Len(stmts) < MaxStmts
    /\ \E op \in {"put", "delete", "truncate"} :
        stmts' = Append(stmts, [by |-> "builder", op |-> op, conn |-> BuilderConn(txdb)])
    /\ UNCHANGED <<sqlCommon, dialectDB, txdb, tx, pc, cbRet, ritRet, txCalls>>
    /\ UNCHANGED nested
    /\ UNCHANGED nonTxVars

\* builder.migrate (lines 314-331): CreateTable when the table is absent,
\* AlterTable otherwise; both are executed by the dialect object.
CbMigrate ==
    /\ pc = "callback"
    /\ Len(stmts) < MaxStmts
    /\ \E hasTable \in BOOLEAN :
        stmts' = Append(stmts, [by |-> "dialect",
                                op |-> IF hasTable THEN "AlterTable" ELSE "CreateTable",
                                conn |-> DialectConn(txdb)])
    /\ UNCHANGED <<sqlCommon, dialectDB, txdb, tx, pc, cbRet, ritRet, txCalls>>
    /\ UNCHANGED nested
    /\ UNCHANGED nonTxVars

\* mysql.ReplaceInto (part_001 241-252).
CbReplaceInto ==
    /\ pc = "callback"
    /\ Len(stmts) < MaxStmts
    /\ stmts' = Append(stmts, [by |-> "dialect", op |-> "ReplaceInto",
                               conn |-> DialectConn(txdb)])
    /\ UNCHANGED <<sqlCommon, dialectDB, txdb, tx, pc, cbRet, ritRet, txCalls>>
    /\ UNCHANGED nested
    /\ UNCHANGED nonTxVars

\* The callback calls RunInTransaction on the handle it was given (db.go
\* 341-343, builder.go 1107-1128): newBuilder clones the handle, and the call
\* returns at line 1110 unless the clone's connection is a *sql.DB; it would
\* otherwise begin on that connection, run its callback and commit.
CbNested ==
    /\ pc = "callback"
    /\ nested = Pending
    /\ IF ~isSqlDB(BuilderConn(txdb))
       THEN /\ nested' = Err("errNoTransaction")
            /\ UNCHANGED <<txCalls, stmts>>
       ELSE /\ nested' = Nil
            /\ txCalls' = txCalls \o << [call |-> "begin", res |-> "ok"],
                                        [call |-> "commit", res |-> "ok"] >>
            /\ stmts' = Append(stmts, [by |-> "builder", op |-> "put",
                                       conn |-> BuilderConn(txdb)])
    /\ UNCHANGED <<sqlCommon, dialectDB, txdb, tx, pc, cbRet, ritRet>>
    /\ UNCHANGED nonTxVars

\* lines 1124-1125 and the deferred calls: the callback returned an error.
CbReturnError ==
    /\ pc = "callback"
    /\ \E e \in CallbackErrors :
        /\ cbRet' = Err(e)
        /\ ritRet' = RecoveredResult(FALSE, Err(e))
    /\ tx' = Rollback(tx)
    /\ txCalls' = Append(txCalls, [call |-> "rollback", res |-> RollbackResult(tx)])
    /\ pc' = "returned"
    /\ UNCHANGED <<sqlCommon, dialectDB, txdb, stmts>>
    /\ UNCHANGED nested
    /\ UNCHANGED nonTxVars

\* line 1127 and the deferred calls: the callback returned nil.
CbReturnNil ==
    /\ pc = "callback"
    /\ \E ok \in BOOLEAN :
        LET t1 == Commit(tx, ok)
            r1 == CommitResult(tx, ok)
        IN  /\ cbRet' = Nil
            /\ ritRet' = RecoveredResult(FALSE, IF r1 = "ok" THEN Nil ELSE Err(r1))
            /\ tx' = Rollback(t1)
            /\ txCalls' = txCalls \o << [call |-> "commit", res |-> r1],
                                        [call |-> "rollback", res |-> RollbackResult(t1)] >>
    /\ pc' = "returned"
    /\ UNCHANGED <<sqlCommon, dialectDB, txdb, stmts>>
    /\ UNCHANGED nested
    /\ UNCHANGED nonTxVars

\* The callback panics: the deferred tx.Rollback() runs, then the deferred
\* closure (lines 1118-1122) recovers and defers one more rollback.
CbPanic ==
    /\ pc = "callback"
    /\ \E p \in PanicValues :
        /\ cbRet' = Panic(p)
        /\ ritRet' = RecoveredResult(TRUE, Panic(p))
    /\ tx' = Rollback(Rollback(tx))
    /\ txCalls' = txCalls \o << [call |-> "rollback", res |-> RollbackResult(tx)],
                                [call |-> "rollback", res |-> RollbackResult(Rollback(tx))] >>
    /\ pc' = "returned"
    /\ UNCHANGED <<sqlCommon, dialectDB, txdb, stmts>>
    /\ UNCHANGED nested
    /\ UNCHANGED nonTxVars

TxNext ==
    \/ BeginUnsupported
    \/ Begin
    \/ CbBuilderExec
    \/ CbMigrate
    \/ CbReplaceInto
    \/ CbNested
    \/ CbReturnError
    \/ CbReturnNil
    \/ CbPanic

SpecTx == TxInit /\ [][TxNext]_vars

----------------------------------------------------------------------------
(* Claims about the transaction orchestration *)

CallsNamed(c) == {i \in 1..Len(txCalls) : txCalls[i].call = c}

\* C1: when begin succeeded and the callback panics, the transaction is rolled
\* back and the original panic leaves RunInTransaction; the call does not
\* return normally with a nil error.
C1_PanicRepropagates ==
    (pc = "returned" /\ cbRet.kind = "panic")
        => (tx = "rolledback" /\ ritRet = cbRet)

\* C2 (as stated): when the callback returns without panicking, the
\* transaction ends committed if and only if the callback returned nil; on an
\* error it ends rolled back, no commit is issued and that error is returned.
C2_CommittedIffNil ==
    (pc = "returned" /\ cbRet.kind \in {"nil", "error"})
        => /\ (tx = "committed") <=> (cbRet.kind = "nil")
           /\ cbRet.kind = "error"
                => (tx = "rolledback" /\ CallsNamed("commit") = {} /\ ritRet = cbRet)

\* C2 (amended): commit is issued exactly when the callback returned nil; the
\* transaction then ends committed (and nil is returned) if and only if that
\* commit succeeded, otherwise the commit's error is returned; the deferred
\* rollback after a commit changes nothing. On a callback error the
\* transaction ends rolled back, no commit is issued and that error is returned.
C2_CommitOnlyOnNil ==
    (pc = "returned" /\ cbRet.kind \in {"nil", "error"})
        => /\ cbRet.kind = "nil" =>
                /\ Cardinality(CallsNamed("commit")) = 1
                /\ \A i \in CallsNamed("commit") :
                      /\ (tx = "committed") <=> (txCalls[i].res = "ok")
                      /\ (ritRet = Nil) <=> (txCalls[i].res = "ok")
                      /\ txCalls[i].res # "ok"
                            => (tx = "commitfailed" /\ ritRet = Err(txCalls[i].res))
                      /\ \A j \in CallsNamed("rollback") :
                            j > i => txCalls[j].res = "ErrTxDone"
           /\ cbRet.kind = "error"
                => (tx = "rolledback" /\ CallsNamed("commit") = {} /\ ritRet = cbRet)

C2_Witness ==
    /\ pc = "returned"
    /\ cbRet = Nil
    /\ tx = "committed"
    /\ \E i \in CallsNamed("commit") : \E j \in CallsNamed("rollback") : j > i

\* C3: every statement issued through the handle passed to the callback, by
\* the builder or by the dialect object, runs on the transaction's connection.
C3_AllOnTxConnection ==
    \A i \in 1..Len(stmts) : stmts[i].conn = "sqlTx"

----------------------------------------------------------------------------
(* Statements: src/statement.go 35-43. The query text is a sequence of      *)
(* tokens; a nil *Stmt is the record NilStmt.                               *)

pkColumn == "$Key"
softDeleteColumn == "$Deleted"
keyFieldName == "__key__"
variable == "?"

\* mysql.Quote (part_001 67-69): the identifier between backquotes, written
\* here with the character ' in place of the backquote.
Quote(n) ==
    CASE n = "$Key" -> "'$Key'"
      [] n = "$Deleted" -> "'$Deleted'"
      [] n = "__key__" -> "'__key__'"
      [] n = "Name" -> "'Name'"
      [] n = "Age" -> "'Age'"
      [] n = "User" -> "'User'"
      [] n = "Post" -> "'Post'"
      [] n = "Archive" -> "'Archive'"
      [] OTHER -> "'" \o n \o "'"

\* dialect.GetTable: the quoted table name.
GetTable(t) == Quote(t)

Stmt(q, a) == [isNil |-> FALSE, query |-> q, args |-> a]
NilStmt == [isNil |-> TRUE, query |-> <<>>, args |-> <<>>]

\* An argument value: a row's column value, a key's string form, a timestamp.
Arg(kind, a, b) == [kind |-> kind, a |-> a, b |-> b]

\* buf.Truncate(buf.Len() - 1): drops the last character, here the last token.
TruncateLast(q) == SubSeq(q, 1, Len(q) - 1)

RECURSIVE Flatten(_)
Flatten(ss) == IF Len(ss) = 0 THEN <<>> ELSE Head(ss) \o Flatten(Tail(ss))

\* strings.Join(elems, sep) on tokens.
RECURSIVE Join(_, _)
Join(elems, sep) ==
    IF Len(elems) = 0 THEN <<>>
    ELSE IF Len(elems) = 1 THEN <<elems[1]>>
    ELSE <<elems[1], sep>> \o Join(Tail(elems), sep)

\* Client.ExecStmt (src/db.go 97-110): s.startTrace() dereferences s, so a nil
\* statement faults before anything reaches the connection; ok is whether the
\* connection accepts and runs the statement.
ExecStmt(s, ok) ==
    IF s.isNil
    THEN [ret |-> Panic("nil pointer dereference"), sent |-> <<>>]
    ELSE [ret |-> IF ok THEN Nil ELSE Err("errExec"), sent |-> <<s>>]

----------------------------------------------------------------------------
(* Keys. A key is [id, parent]; id 0 is an incomplete key, NilKey a nil    *)
(* *datastore.Key.                                                          *)

Table == "User"

Key(id) == [kind |-> Table, id |-> id, parent |-> 0]
NilKey == [kind |-> "", id |-> -1, parent |-> 0]
ParentKey == [kind |-> "Org", id |-> 9, parent |-> 0]
Incomplete(k) == k.id = 0

\* stringPk: the string form of a key, the value of the primary-key column.
stringPk(k) == Arg("pk", k.kind, k.parent * 100 + k.id)

\* newPrimaryKey(table, key): a complete key of the table is kept; otherwise a
\* key with a freshly allocated identifier is made under the given key.
newPrimaryKey(table, k, fresh) ==
    IF k # NilKey /\ k.kind = table /\ k.id > 0 THEN k
    ELSE [kind |-> table, id |-> fresh, parent |-> IF k = NilKey THEN 0 ELSE k.id]

----------------------------------------------------------------------------
(* Insert and upsert: src/builder.go 626-757, src/db.go 232-256            *)

FailKinds == {"none", "invalid", "nokey", "saver", "savestruct", "propconv"}

\* DB.Omit (src/db.go 233-240): the key names are removed from the list.
DBOmit(fields) == fields \ {keyFieldName, pkColumn}

\* Query.Omit hands the handle's list to the scope.
QueryOmit(fields) == fields

\* The value of column c in row i, with pk the row's primary key (lines
\* 679-691).
RowValue(c, i, pk) == IF c = pkColumn THEN stringPk(pk) ELSE Arg("val", c, i)

\* The first row whose compilation fails, 0 when none does.
FirstFail(rs) ==
    IF \E i \in 1..Len(rs) : rs[i].fail # "none"
    THEN CHOOSE i \in 1..Len(rs) :
            /\ rs[i].fail # "none"
            /\ \A j \in 1..(i - 1) : rs[j].fail = "none"
    ELSE 0

\* What putStmt returns when a row of the given kind fails: an error, except
\* for SaveStruct's error (line 676), where it returns (nil, nil).
PutFailure(kind) ==
    IF kind = "savestruct"
    THEN [stmt |-> NilStmt, err |-> Nil]
    ELSE [stmt |-> NilStmt, err |-> Err(kind)]

\* builder.putStmt (lines 626-707). hasParent: a parent key was given.
putStmt(hasParent, rs, cs) ==
    LET f == FirstFail(rs)
        pk(i) == IF hasParent
                 THEN newPrimaryKey(Table, newPrimaryKey(Table, ParentKey, 10 + i), 20 + i)
                 ELSE newPrimaryKey(Table, rs[i].key, 10 + i)
        rowText == <<"(">> \o TruncateLast(Flatten([j \in 1..Len(cs) |-> <<variable, ",">>]))
                          \o <<")">>
        head == <<"INSERT INTO", GetTable(Table), "(">>
                    \o Join([j \in 1..Len(cs) |-> Quote(cs[j])], ",") \o <<")", "VALUES">>
        text == head \o Flatten([i \in 1..Len(rs) |->
                                    (IF i # 1 THEN <<",">> ELSE <<>>) \o rowText])
                     \o <<";">>
        args == Flatten([i \in 1..Len(rs) |->
                            [j \in 1..Len(cs) |-> RowValue(cs[j], i, pk(i))]])
    IN  IF f # 0 THEN PutFailure(rs[f].fail)
        ELSE [stmt |-> Stmt(text, args), err |-> Nil]

\* The loop of builder.upsert (lines 740-745) over Go slices: the range runs
\* over the original n positions of the backing array arr, while cols is
\* re-sliced to len on every removal; cols[i+1:] faults when i+1 > len.
RECURSIVE omitLoop(_, _, _, _, _)
omitLoop(i, n, arr, len, omits) ==
    IF i >= n THEN [cols |-> SubSeq(arr, 1, len), fault |-> FALSE]
    ELSE IF arr[i + 1] \notin omits THEN omitLoop(i + 1, n, arr, len, omits)
    ELSE IF i + 1 > len THEN [cols |-> SubSeq(arr, 1, len), fault |-> TRUE]
    ELSE omitLoop(i + 1, n,
                  [k \in 1..n |-> IF k >= i + 1 /\ k <= len - 1 THEN arr[k + 1] ELSE arr[k]],
                  len - 1, omits)

\* mysql.OnConflictUpdate (part_001 98-106).
OnConflictUpdate(cs) ==
    <<"ON DUPLICATE KEY UPDATE">>
        \o TruncateLast(Flatten([j \in 1..Len(cs) |-> <<Quote(cs[j]), "=VALUES(", Quote(cs[j]), ")", ",">>]))

NonKeyColumns == <<"Name", "Age">>

\* The column lists of an entity: the key column at any place among an
\* order-preserving choice of the other columns.
RECURSIVE SubSeqs(_)
SubSeqs(s) ==
    IF Len(s) = 0 THEN {<<>>}
    ELSE LET rest == SubSeqs(Tail(s))
         IN  rest \cup {<<Head(s)>> \o r : r \in rest}

InsertAt(s, k, x) == SubSeq(s, 1, k) \o <<x>> \o SubSeq(s, k + 1, Len(s))

ColumnLists ==
    UNION {{InsertAt(s, k, pkColumn) : k \in 0..Len(s)} : s \in SubSeqs(NonKeyColumns)}

OmitLists == SUBSET {"Name", "Age", pkColumn, keyFieldName}

RECURSIVE SeqsUpTo(_, _)
SeqsUpTo(S, n) ==
    IF n = 0 THEN {<<>>}
    ELSE LET shorter == SeqsUpTo(S, n - 1)
         IN  shorter \cup {Append(q, x) : q \in {r \in shorter : Len(r) = n - 1}, x \in S}

PutRows == SeqsUpTo({[key |-> Key(0), fail |-> f] : f \in FailKinds}, MaxRows)

MutInit ==
    /\ cols \in ColumnLists
    /\ omitFields \in OmitLists
    /\ rows \in PutRows
    /\ softDelete = FALSE
    /\ scope = <<>>
    /\ arg = <<>>
    /\ mop = "none"
    /\ mret = Pending
    /\ sent = <<>>
    /\ conflict = [called |-> FALSE, cols |-> <<>>]
    /\ populated = FALSE
    /\ dialect = "mysql"
    /\ schema = NoTable
    /\ receiver = DefaultHandle
    /\ returned = NoHandle
    /\ TxIdle
    /\ OpenIdle

\* DB.Create -> builder.put (lines 709-723).
Create ==
    /\ mop = "none"
    /\ mop' = "create"
    /\ \E entityOk \in BOOLEAN, hasParent \in BOOLEAN, execOk \in BOOLEAN :
        LET p == putStmt(hasParent, rows, cols)
            x == ExecStmt(p.stmt, execOk)
        IN  IF ~entityOk THEN mret' = Err("errEntity") /\ sent' = <<>>
            ELSE IF Len(rows) <= 0 THEN mret' = Nil /\ sent' = <<>>
            ELSE IF p.err # Nil THEN mret' = p.err /\ sent' = <<>>
            ELSE mret' = x.ret /\ sent' = x.sent
    /\ UNCHANGED <<cols, omitFields, rows, softDelete, scope, arg, conflict, populated>>
    /\ UNCHANGED dialect
    /\ UNCHANGED <<schema, receiver, returned>>
    /\ UNCHANGED nonMutVars

\* builder.upsert (lines 725-757) of a scope with the omission list queryOmits.
upsert(queryOmits) ==
    /\ \E entityOk \in BOOLEAN, hasParent \in BOOLEAN, execOk \in BOOLEAN :
        LET omits == queryOmits
            p == putStmt(hasParent, rows, cols)
            kept == omitLoop(0, Len(cols), cols, Len(cols), omits)
            text == TruncateLast(p.stmt.query)
                      \o (IF Len(kept.cols) > 0 THEN OnConflictUpdate(kept.cols) ELSE <<>>)
                      \o <<";">>
            x == ExecStmt(Stmt(text, p.stmt.args), execOk)
        IN  IF ~entityOk
                THEN mret' = Err("errEntity") /\ sent' = <<>> /\ UNCHANGED conflict
            ELSE IF Len(rows) <= 0
                THEN mret' = Nil /\ sent' = <<>> /\ UNCHANGED conflict
            ELSE IF p.err # Nil
                THEN mret' = p.err /\ sent' = <<>> /\ UNCHANGED conflict
            ELSE IF p.stmt.isNil
                THEN /\ mret' = Panic("nil pointer dereference")
                     /\ sent' = <<>>
                     /\ UNCHANGED conflict
            ELSE IF kept.fault
                THEN /\ mret' = Panic("slice bounds out of range")
                     /\ sent' = <<>>
                     /\ UNCHANGED conflict
            ELSE /\ mret' = x.ret
                 /\ sent' = x.sent
                 /\ conflict' = [called |-> Len(kept.cols) > 0, cols |-> kept.cols]
    /\ UNCHANGED <<cols, omitFields, rows, softDelete, scope, arg, populated>>
    /\ UNCHANGED dialect
    /\ UNCHANGED <<schema, receiver, returned>>
    /\ UNCHANGED nonMutVars

\* DB.Omit(omitFields...).Upsert (src/db.go 233-240, 251-256).
Upsert ==
    /\ mop = "none"
    /\ mop' = "upsert"
    /\ upsert(QueryOmit(DBOmit(omitFields)))

MutNext ==
    \/ Create
    \/ Upsert

SpecMut == MutInit /\ [][MutNext]_vars

----------------------------------------------------------------------------
(* Row-set delete: src/builder.go 968-1051, src/db.go 266-274              *)

Now == Arg("now", "", 0)

\* The first row concatKeys stops at, 0 when it reaches the end.
FirstBadKey(rs) ==
    IF \E i \in 1..Len(rs) : rs[i].fail = "nokey" \/ rs[i].key = NilKey \/ Incomplete(rs[i].key)
    THEN CHOOSE i \in 1..Len(rs) :
            /\ rs[i].fail = "nokey" \/ rs[i].key = NilKey \/ Incomplete(rs[i].key)
            /\ \A j \in 1..(i - 1) :
                ~(rs[j].fail = "nokey" \/ rs[j].key = NilKey \/ Incomplete(rs[j].key))
    ELSE 0

\* builder.concatKeys (lines 968-992): "(" ?,?,... ")" and the keys' string
\* forms; a key field of another type or an incomplete key is an error, and
\* Incomplete() on a nil key dereferences it.
concatKeys(rs) ==
    LET b == FirstBadKey(rs)
    IN  IF b # 0
        THEN [stmt |-> NilStmt,
              ret |-> IF rs[b].fail = "nokey" THEN Err("nokey")
                      ELSE IF rs[b].key = NilKey THEN Panic("nil pointer dereference")
                      ELSE Err("incomplete key")]
        ELSE [stmt |-> Stmt(<<"(">>
                              \o Flatten([i \in 1..Len(rs) |->
                                            (IF i # 1 THEN <<",">> ELSE <<>>) \o <<variable>>])
                              \o <<")">>,
                            [i \in 1..Len(rs) |-> stringPk(rs[i].key)]),
              ret |-> Nil]

\* A softDeleteStmt that appends the deletion time after the keys.
softDeleteStmtTimeLast(rs) ==
    LET k == concatKeys(rs)
    IN  IF k.ret # Nil THEN k
        ELSE [stmt |-> Stmt(<<"UPDATE", GetTable(Table), "SET", Quote(softDeleteColumn), "=",
                              variable, "WHERE", Quote(pkColumn), "IN">>
                              \o k.stmt.query \o <<";">>,
                            k.stmt.args \o <<Now>>),
              ret |-> Nil]

\* builder.softDeleteStmt (lines 994-1016).
softDeleteStmt(rs) ==
    LET k == concatKeys(rs)
    IN  IF k.ret # Nil THEN k
        ELSE [stmt |-> Stmt(<<"UPDATE", GetTable(Table), "SET", Quote(softDeleteColumn), "=",
                              variable, "WHERE", Quote(pkColumn), "IN">>
                              \o k.stmt.query \o <<";">>,
                            <<Now>> \o k.stmt.args),
              ret |-> Nil]

\* A deleteStmt that does not ask whether the entity has a soft-delete column.
deleteStmtNoEntityCheck(rs, isSoftDelete, hasSoftDelete) ==
    IF isSoftDelete THEN softDeleteStmt(rs)
    ELSE LET k == concatKeys(rs)
         IN  IF k.ret # Nil THEN k
             ELSE [stmt |-> Stmt(<<"DELETE FROM", GetTable(Table), "WHERE", Quote(pkColumn),
                                   "IN">> \o k.stmt.query \o <<";">>, k.stmt.args),
                   ret |-> Nil]

\* builder.deleteStmt (lines 1018-1038).
deleteStmt(rs, isSoftDelete, hasSoftDelete) ==
    IF isSoftDelete /\ hasSoftDelete THEN softDeleteStmt(rs)
    ELSE LET k == concatKeys(rs)
         IN  IF k.ret # Nil THEN k
             ELSE [stmt |-> Stmt(<<"DELETE FROM", GetTable(Table), "WHERE", Quote(pkColumn),
                                   "IN">> \o k.stmt.query \o <<";">>, k.stmt.args),
                   ret |-> Nil]

DeleteKeys == {Key(1), Key(2), Key(3), Key(0), NilKey}

DeleteRows == SeqsUpTo({[key |-> k, fail |-> f] : k \in DeleteKeys, f \in {"none", "nokey"}},
                       MaxRows)

DeleteInit ==
    /\ cols = <<pkColumn, "Name", "Age">>
    /\ omitFields = {}
    /\ rows \in DeleteRows
    /\ softDelete \in BOOLEAN
    /\ scope = <<>>
    /\ arg = <<>>
    /\ mop = "none"
    /\ mret = Pending
    /\ sent = <<>>
    /\ conflict = [called |-> FALSE, cols |-> <<>>]
    /\ populated = FALSE
    /\ dialect = "mysql"
    /\ schema = NoTable
    /\ receiver = DefaultHandle
    /\ returned = NoHandle
    /\ TxIdle
    /\ OpenIdle

\* builder.delete (lines 1040-1051).
delete(isSoftDelete) ==
    /\ \E entityOk \in BOOLEAN, execOk \in BOOLEAN :
        LET d == deleteStmt(rows, isSoftDelete, softDelete)
            x == ExecStmt(d.stmt, execOk)
        IN  IF ~entityOk THEN mret' = Err("errEntity") /\ sent' = <<>>
            ELSE IF d.ret # Nil THEN mret' = d.ret /\ sent' = <<>>
            ELSE mret' = x.ret /\ sent' = x.sent
    /\ UNCHANGED <<cols, omitFields, rows, softDelete, scope, arg, conflict, populated>>
    /\ UNCHANGED dialect
    /\ UNCHANGED <<schema, receiver, returned>>
    /\ UNCHANGED nonMutVars

\* DB.Delete (src/db.go 267-269).
Delete ==
    /\ mop = "none"
    /\ mop' = "delete"
    /\ delete(TRUE)

\* DB.Destroy (src/db.go 272-274).
Destroy ==
    /\ mop = "none"
    /\ mop' = "destroy"
    /\ delete(FALSE)

DeleteNext ==
    \/ Delete
    \/ Destroy

SpecDelete == DeleteInit /\ [][DeleteNext]_vars

----------------------------------------------------------------------------
(* Claims about the row-set mutations *)

\* C4: the primary-key column is never among the columns passed to the
\* dialect's conflict-resolution clause of an upsert.
C4_KeyNeverInConflictClause ==
    (mop = "upsert" /\ conflict.called)
        => \A i \in 1..Len(conflict.cols) : conflict.cols[i] # pkColumn

\* C5: the columns handed to the conflict-resolution clause are exactly the
\* entity's columns not in the omission list, in their original order, and the
\* filtering never faults.
C5_ExactOmissionFilter ==
    (mop = "upsert" /\ Len(rows) > 0 /\ FirstFail(rows) = 0 /\ mret # Err("errEntity"))
        => /\ mret.kind # "panic"
           /\ conflict.cols
                = SelectSeq(cols, LAMBDA c : c \notin QueryOmit(DBOmit(omitFields)))

\* C9: every failure while compiling the rows of a Create or Upsert gives the
\* caller a non-nil error and sends no statement; execution is never entered
\* with a missing statement.
C9_CompileFailureIsError ==
    (mop \in {"create", "upsert"} /\ FirstFail(rows) # 0)
        => (mret.kind = "error" /\ sent = <<>>)

AllComplete(rs) ==
    \A i \in 1..Len(rs) : rs[i].fail = "none" /\ rs[i].key # NilKey /\ ~Incomplete(rs[i].key)

PlaceholderList(n) == [i \in 1..(IF n = 0 THEN 0 ELSE 2 * n - 1) |->
                          IF i % 2 = 1 THEN "?" ELSE ","]

KeyArgs(rs) == [i \in 1..Len(rs) |-> stringPk(rs[i].key)]

\* C10: with every row's key complete, Delete on an entity with a soft-delete
\* column sends exactly one UPDATE setting that column, with key IN (n
\* placeholders) and arguments [timestamp, K1..Kn], never a DELETE; Destroy,
\* and Delete on an entity without the column, send exactly one DELETE with
\* key IN (n placeholders) and arguments [K1..Kn].
C10_DeleteStatementKind ==
    (mop \in {"delete", "destroy"} /\ AllComplete(rows) /\ mret # Err("errEntity"))
        => /\ Len(sent) = 1
           /\ IF mop = "delete" /\ softDelete
              THEN /\ sent[1].query
                        = <<"UPDATE", "'User'", "SET", "'$Deleted'", "=", "?",
                            "WHERE", "'$Key'", "IN", "(">>
                            \o PlaceholderList(Len(rows)) \o <<")", ";">>
                   /\ sent[1].args = <<Now>> \o KeyArgs(rows)
              ELSE /\ sent[1].query
                        = <<"DELETE FROM", "'User'", "WHERE", "'$Key'", "IN", "(">>
                            \o PlaceholderList(Len(rows)) \o <<")", ";">>
                   /\ sent[1].args = KeyArgs(rows)

C10_Witness ==
    /\ mop = "delete"
    /\ softDelete
    /\ Len(rows) = 2
    /\ AllComplete(rows)
    /\ rows[1].key # rows[2].key
    /\ Len(sent) = 1
    /\ sent[1].query[1] = "UPDATE"
    /\ Len(sent[1].args) = 3

----------------------------------------------------------------------------
(* Scopes and filters: the scope a query builds up (b.query), compiled by   *)
(* src/builder.go 83-304                                                    *)

MaxFilters == 2

\* A filter or argument value as the caller gave it: nil, one element, or a
\* list of elements. An element is a string, a *datastore.Key or a value of
\* another type (an int).
NilValue == [kind |-> "nil", elems |-> <<>>]
Scalar(x) == [kind |-> "scalar", elems |-> <<x>>]
List(xs) == [kind |-> "list", elems |-> xs]

StrElem(s) == Arg("str", s, 0)
IntElem(n) == Arg("int", "", n)
KeyElem(id) == Arg("key", Table, id)
NilArg == Arg("nil", "", 0)

\* The database form of one element (Filter.Interface): a key becomes its
\* string form, any other value its stored value.
toDBValue(x) ==
    IF x.kind = "key" THEN stringPk([kind |-> x.a, id |-> x.b, parent |-> 0])
    ELSE Arg("val", x.a, x.b)

\* Filter.Interface: the filter's value in database form, or an error.
FilterInterface(f) ==
    IF ~f.ifaceOk THEN [err |-> Err("errInterface"), val |-> NilValue]
    ELSE [err |-> Nil,
          val |-> [kind |-> f.value.kind,
                   elems |-> [i \in 1..Len(f.value.elems) |-> toDBValue(f.value.elems[i])]]]

\* interfaceToKeyString on one element (lines 1139-1147, 1164-1166).
keyStringOf(x) ==
    IF x.kind = "key" THEN stringPk([kind |-> x.a, id |-> x.b, parent |-> 0])
    ELSE x

\* interfaceToKeyString (lines 1137-1168): nil stays nil, a key becomes its
\* string form, a string stays, a list is converted element by element, any
\* other type is an error.
interfaceToKeyString(v) ==
    IF \E i \in 1..Len(v.elems) : v.elems[i].kind \notin {"key", "str"}
    THEN [err |-> Err("primary key has invalid data type"), val |-> NilValue]
    ELSE [err |-> Nil,
          val |-> [kind |-> v.kind,
                   elems |-> [i \in 1..Len(v.elems) |-> keyStringOf(v.elems[i])]]]

\* x, isOk := v.([]interface{}); if !isOk { x = append(x, v) }
asList(v) ==
    IF v.kind = "list" THEN v.elems
    ELSE IF v.kind = "nil" THEN <<NilArg>>
    ELSE v.elems

\* The one argument appended for a value by args = append(args, v).
asArg(v) ==
    IF v.kind = "nil" THEN NilArg
    ELSE IF v.kind = "scalar" THEN v.elems[1]
    ELSE Arg("slice", "", Len(v.elems))

\* The operator text of lines 139-161, 181-184.
opText(operator) ==
    CASE operator = "Equal" -> "="
      [] operator = "EqualTo" -> "<=>"
      [] operator = "NotEqual" -> "<>"
      [] operator = "GreaterThan" -> ">"
      [] operator = "GreaterEqual" -> ">="
      [] operator = "LessThan" -> "<"
      [] operator = "LessEqual" -> "<="
      [] operator = "Like" -> "LIKE"
      [] operator = "NotLike" -> "NOT LIKE"
      [] operator = "In" -> "IN"
      [] operator = "NotIn" -> "NOT IN"
      [] OTHER -> "="

\* A placeholder list of one placeholder whatever the number of values.
bindListOnce(n) == <<"(", variable, ")">>

\* strings.TrimRight(strings.Repeat(variable+",", n), ",") between brackets.
bindList(n) == <<"(">> \o TruncateLast(Flatten([i \in 1..n |-> <<variable, ",">>])) \o <<")">>

\* dialect.FilterJSON: the dialect's JSON predicate on the column, or its
\* error.
FilterJSON(f, v) ==
    IF f.jsonOk
    THEN [err |-> Nil, text |-> <<"JSON", Quote(f.field), opText(f.operator), variable>>,
          args |-> <<asArg(v)>>]
    ELSE [err |-> Err("errFilterJSON"), text |-> <<>>, args |-> <<>>]

\* A clause compiler that binds a nil value like any other value.
whereClauseNilBound(f) ==
    LET iv == FilterInterface(f)
        isKey == f.field \in {keyFieldName, pkColumn}
        name == IF isKey THEN Quote(pkColumn) ELSE Quote(f.field)
        kv == interfaceToKeyString(f.value)
        v == IF isKey THEN kv.val ELSE iv.val
        x == asList(v)
        js == FilterJSON(f, iv.val)
        clause(t, a) == [err |-> Nil, text |-> t, args |-> a]
        fail(e) == [err |-> e, text |-> <<>>, args |-> <<>>]
    IN  IF iv.err # Nil THEN fail(iv.err)
        ELSE IF f.isJSON THEN js
        ELSE IF isKey /\ kv.err # Nil THEN fail(kv.err)
        ELSE IF f.operator = "AnyLike"
            THEN IF Len(x) <= 0
                 THEN fail(Err("value for AnyLike operator cannot be empty"))
                 ELSE clause(<<"(">> \o TruncateLast(Flatten([j \in 1..Len(x) |->
                                                    <<name, "LIKE", variable, "OR">>]))
                                     \o <<")">>, x)
        ELSE IF f.operator = "In"
            THEN IF Len(x) <= 0
                 THEN fail(Err("value for In operator cannot be empty"))
                 ELSE clause(<<name, "IN">> \o bindList(Len(x)), x)
        ELSE IF f.operator = "NotIn"
            THEN IF Len(x) <= 0
                 THEN fail(Err("value for NotIn operator cannot be empty"))
                 ELSE clause(<<name, "NOT IN">> \o bindList(Len(x)), x)
        ELSE clause(<<name, opText(f.operator), variable>>, <<asArg(v)>>)

\* One pass of the filter loop of buildWhere (lines 113-216): the clause and
\* the arguments the filter adds, or the error the loop returns.
whereClause(f) ==
    LET iv == FilterInterface(f)
        isKey == f.field \in {keyFieldName, pkColumn}
        name == IF isKey THEN Quote(pkColumn) ELSE Quote(f.field)
        kv == interfaceToKeyString(f.value)
        v == IF isKey THEN kv.val ELSE iv.val
        x == asList(v)
        js == FilterJSON(f, iv.val)
        clause(t, a) == [err |-> Nil, text |-> t, args |-> a]
        fail(e) == [err |-> e, text |-> <<>>, args |-> <<>>]
    IN  IF iv.err # Nil THEN fail(iv.err)
        ELSE IF f.isJSON THEN js
        ELSE IF isKey /\ kv.err # Nil THEN fail(kv.err)
        ELSE IF f.operator = "Equal" /\ v.kind = "nil"
            THEN clause(<<name, "IS NULL">>, <<>>)
        ELSE IF f.operator = "NotEqual" /\ v.kind = "nil"
            THEN clause(<<name, "IS NOT NULL">>, <<>>)
        ELSE IF f.operator = "AnyLike"
            THEN IF Len(x) <= 0
                 THEN fail(Err("value for AnyLike operator cannot be empty"))
                 ELSE clause(<<"(">> \o TruncateLast(Flatten([j \in 1..Len(x) |->
                                                    <<name, "LIKE", variable, "OR">>]))
                                     \o <<")">>, x)
        ELSE IF f.operator = "In"
            THEN IF Len(x) <= 0
                 THEN fail(Err("value for In operator cannot be empty"))
                 ELSE clause(<<name, "IN">> \o bindList(Len(x)), x)
        ELSE IF f.operator = "NotIn"
            THEN IF Len(x) <= 0
                 THEN fail(Err("value for NotIn operator cannot be empty"))
                 ELSE clause(<<name, "NOT IN">> \o bindList(Len(x)), x)
        ELSE clause(<<name, opText(f.operator), variable>>, <<asArg(v)>>)

\* fmt.Sprintf("%%%s/%%", stringifyKey(k)): the LIKE pattern of an ancestor.
ancestorPattern(k) == Arg("%key/%", k.kind, k.parent * 100 + k.id)

\* One pass of the ancestor loop of buildWhere (lines 218-234); a group with
\* no key truncates its buffer below zero.
ancestorClause(aa) ==
    IF aa.isGroup
    THEN IF Len(aa.data) = 0
         THEN [err |-> Panic("truncation out of range"), text |-> <<>>, args |-> <<>>]
         ELSE [err |-> Nil,
               text |-> <<"(">> \o TruncateLast(Flatten([j \in 1..Len(aa.data) |->
                                            <<Quote(pkColumn), "LIKE", variable, "OR">>]))
                              \o <<")">>,
               args |-> [j \in 1..Len(aa.data) |-> ancestorPattern(aa.data[j])]]
    ELSE [err |-> Nil,
          text |-> <<Quote(pkColumn), "LIKE", variable>>,
          args |-> <<ancestorPattern(aa.data[1])>>]

\* The first clause of cs that failed, 0 when none did.
FirstError(cs) ==
    IF \E i \in 1..Len(cs) : cs[i].err # Nil
    THEN CHOOSE i \in 1..Len(cs) : cs[i].err # Nil /\ \A j \in 1..(i - 1) : cs[j].err = Nil
    ELSE 0

\* strings.Join(wheres, " AND ").
RECURSIVE joinWheres(_)
joinWheres(ws) ==
    IF Len(ws) = 0 THEN <<>>
    ELSE IF Len(ws) = 1 THEN ws[1]
    ELSE ws[1] \o <<"AND">> \o joinWheres(Tail(ws))

\* builder.buildWhere (lines 109-247): the filters in order, then the
\* ancestors, joined by AND behind WHERE; the arguments in the same order. The
\* first failing clause ends the compilation.
buildWhere(query) ==
    CHOOSE r \in
        { IF FirstError(cs) # 0
              THEN [stmt |-> NilStmt, err |-> cs[FirstError(cs)].err]
          ELSE IF Len(cs) > 0
              THEN [stmt |-> Stmt(<<"WHERE">> \o joinWheres([i \in 1..Len(cs) |-> cs[i].text]),
                                  Flatten([i \in 1..Len(cs) |-> cs[i].args])),
                    err |-> Nil]
          ELSE [stmt |-> Stmt(<<>>, <<>>), err |-> Nil] :
            cs \in { [i \in 1..Len(query.filters) |-> whereClause(query.filters[i])]
                       \o [i \in 1..Len(query.ancestors) |->
                              ancestorClause(query.ancestors[i])] } } : TRUE

\* builder.buildOrder (lines 249-273).
buildOrder(query) ==
    IF Len(query.orders) = 0 THEN <<>>
    ELSE <<"ORDER BY">>
            \o TruncateLast(Flatten([i \in 1..Len(query.orders) |->
                    <<IF query.orders[i].field = keyFieldName
                      THEN Quote(pkColumn) ELSE Quote(query.orders[i].field),
                      IF query.orders[i].direction = "ascending" THEN "ASC" ELSE "DESC",
                      ",">>]))

\* builder.buildLimitOffset (lines 275-286).
buildLimitOffset(query) ==
    (IF query.limit > 0 THEN <<"LIMIT", ToString(query.limit)>> ELSE <<>>)
        \o (IF query.offset > 0 THEN <<"OFFSET", ToString(query.offset)>> ELSE <<>>)

\* builder.buildStmt (lines 288-304): WHERE, ORDER BY, LIMIT/OFFSET; args are
\* the arguments the caller already holds.
buildStmt(query, args) ==
    CHOOSE r \in
        { IF w.err # Nil THEN [stmt |-> NilStmt, err |-> w.err]
          ELSE [stmt |-> Stmt(w.stmt.query \o buildOrder(query) \o buildLimitOffset(query),
                              args \o w.stmt.args),
                err |-> Nil] : w \in {buildWhere(query)} } : TRUE

\* builder.buildSelect (lines 83-107).
buildSelect(query) ==
    IF Len(query.distinctOn) > 0
    THEN <<"SELECT", "DISTINCT">> \o Join([i \in 1..Len(query.distinctOn) |->
                                            Quote(query.distinctOn[i])], ",")
    ELSE IF Len(query.projection) > 0
    THEN <<"SELECT">> \o Join([i \in 1..Len(query.projection) |->
                                  Quote(query.projection[i])], ",")
    ELSE <<"SELECT", "*">>

\* A getStmt that writes the lock clause right behind WHERE, in front of
\* ORDER BY and LIMIT.
getStmtLockFirst(query, hasSoftDelete) ==
    LET q == IF ~query.noScope /\ hasSoftDelete
             THEN [query EXCEPT !.filters =
                        Append(@, [field |-> softDeleteColumn, operator |-> "Equal",
                                   value |-> NilValue, isJSON |-> FALSE, jsonOk |-> TRUE,
                                   ifaceOk |-> TRUE])]
             ELSE query
        lock == IF query.lockMode = "ReadLock" THEN <<"LOCK IN SHARE MODE">>
                ELSE IF query.lockMode = "WriteLock" THEN <<"FOR UPDATE">>
                ELSE <<>>
    IN  CHOOSE r \in
            { IF w.err # Nil THEN [stmt |-> NilStmt, err |-> w.err]
              ELSE [stmt |-> Stmt(buildSelect(query) \o <<"FROM", GetTable(query.table)>>
                                    \o w.stmt.query \o lock \o buildOrder(q)
                                    \o buildLimitOffset(q) \o <<";">>, w.stmt.args),
                    err |-> Nil] : w \in {buildWhere(q)} } : TRUE

\* A getStmt that scopes soft-deleted rows out whatever the query says.
getStmtAlwaysScoped(query, hasSoftDelete) ==
    LET q == IF hasSoftDelete
             THEN [query EXCEPT !.filters =
                        Append(@, [field |-> softDeleteColumn, operator |-> "Equal",
                                   value |-> NilValue, isJSON |-> FALSE, jsonOk |-> TRUE,
                                   ifaceOk |-> TRUE])]
             ELSE query
        lock == IF query.lockMode = "ReadLock" THEN <<"LOCK IN SHARE MODE">>
                ELSE IF query.lockMode = "WriteLock" THEN <<"FOR UPDATE">>
                ELSE <<>>
    IN  CHOOSE r \in
            { IF s.err # Nil THEN [stmt |-> NilStmt, err |-> s.err]
              ELSE [stmt |-> Stmt(buildSelect(query) \o <<"FROM", GetTable(query.table)>>
                                    \o s.stmt.query \o lock \o <<";">>, s.stmt.args),
                    err |-> Nil] : s \in {buildStmt(q, <<>>)} } : TRUE

\* builder.getStmt (lines 333-363): the soft-delete filter is added last to
\* the filters unless the scope is unscoped; the lock clause follows LIMIT.
getStmt(query, hasSoftDelete) ==
    LET q == IF ~query.noScope /\ hasSoftDelete
             THEN [query EXCEPT !.filters =
                        Append(@, [field |-> softDeleteColumn, operator |-> "Equal",
                                   value |-> NilValue, isJSON |-> FALSE, jsonOk |-> TRUE,
                                   ifaceOk |-> TRUE])]
             ELSE query
        lock == IF query.lockMode = "ReadLock" THEN <<"LOCK IN SHARE MODE">>
                ELSE IF query.lockMode = "WriteLock" THEN <<"FOR UPDATE">>
                ELSE <<>>
    IN  CHOOSE r \in
            { IF s.err # Nil THEN [stmt |-> NilStmt, err |-> s.err]
              ELSE [stmt |-> Stmt(buildSelect(query) \o <<"FROM", GetTable(query.table)>>
                                    \o s.stmt.query \o lock \o <<";">>, s.stmt.args),
                    err |-> Nil] : s \in {buildStmt(q, <<>>)} } : TRUE

----------------------------------------------------------------------------
(* Bulk update: src/builder.go 837-966                                      *)

\* The position in a map's iteration order at which updateWithMap returns an
\* error, 0 when it reaches the end: a key that is not a string, the key
\* __key__, or a value that cannot be converted.
FirstBadEntry(es) ==
    IF \E i \in 1..Len(es) : ~es[i].strKey \/ es[i].name = keyFieldName \/ ~es[i].ok
    THEN CHOOSE i \in 1..Len(es) :
            /\ ~es[i].strKey \/ es[i].name = keyFieldName \/ ~es[i].ok
            /\ \A j \in 1..(i - 1) :
                ~(~es[j].strKey \/ es[j].name = keyFieldName \/ ~es[j].ok)
    ELSE 0

\* builder.updateWithMap (lines 837-873); es is the map in iteration order.
updateWithMap(es) ==
    LET b == FirstBadEntry(es)
    IN  IF b # 0
        THEN [stmt |-> NilStmt,
              err |-> IF ~es[b].strKey THEN Err("invalid map key data type")
                      ELSE IF es[b].name = keyFieldName
                          THEN Err("update __key__ is not allow")
                      ELSE Err("errValue")]
        ELSE [stmt |-> Stmt(Flatten([i \in 1..Len(es) |->
                                        (IF i > 1 THEN <<",">> ELSE <<>>)
                                            \o <<Quote(es[i].name), "=", variable>>]),
                            [i \in 1..Len(es) |-> Arg("val", es[i].name, i)]),
              err |-> Nil]

\* Properties written whenever they are not zero, whatever the projection.
writtenPropsNonZero(ps, projection) ==
    SelectSeq(ps, LAMBDA p : ~(p.name = keyFieldName \/ p.zero))

\* The properties updateWithStruct writes (line 890): not the key field, and
\* not a zero value unless the field is in the projection.
writtenProps(ps, projection) ==
    SelectSeq(ps, LAMBDA p :
        ~(p.name = keyFieldName
            \/ (~(\E i \in 1..Len(projection) : projection[i] = p.name) /\ p.zero)))

\* builder.updateWithStruct (lines 875-908): ps are the properties SaveStruct
\* gives, structOk whether the checks and conversions succeed. With nothing
\* written, buf.Truncate(buf.Len() - 1) is Truncate(-1), which panics.
updateWithStruct(ps, structOk, projection) ==
    LET ws == writtenProps(ps, projection)
    IN  IF ~structOk THEN [stmt |-> NilStmt, err |-> Err("errStruct")]
        ELSE IF Len(ws) = 0
            THEN [stmt |-> NilStmt, err |-> Panic("truncation out of range")]
        ELSE [stmt |-> Stmt(TruncateLast(Flatten([i \in 1..Len(ws) |->
                                <<Quote(ws[i].name), "=", variable, ",">>])),
                            [i \in 1..Len(ws) |-> Arg("val", ws[i].name, i)]),
              err |-> Nil]

\* mysql.UpdateWithLimit (part_001 237-239).
UpdateWithLimit == TRUE

\* dialect.UpdateWithLimit() of the handle's dialect: mysql has UPDATE with
\* LIMIT, postgres has not (CHANGELOG.md line 19).
DialectUpdateWithLimit(d) == IF d = "mysql" THEN UpdateWithLimit ELSE FALSE

\* An updateMulti that appends WHERE, ORDER BY and LIMIT directly whatever the
\* dialect supports.
updateMultiDirect(query, upd, updateWithLimit) ==
    LET table == IF query.table = "" THEN upd.typeName ELSE query.table
        stop(r) == [stmt |-> NilStmt, ret |-> r]
        tail(s) == IF FALSE
                   THEN <<"WHERE", Quote(pkColumn), "IN", "(", "SELECT", Quote(pkColumn),
                          "FROM", GetTable(table)>> \o s.stmt.query \o <<")">>
                   ELSE s.stmt.query
    IN  IF table = "" THEN stop(Err("missing table name"))
        ELSE IF upd.kind = "map" /\ Len(upd.items) = 0 THEN stop(Nil)
        ELSE IF upd.kind \notin {"map", "struct"} THEN stop(Err("unsupported data type"))
        ELSE CHOOSE r \in
            { IF set.err # Nil THEN stop(set.err)
              ELSE IF s.err # Nil THEN stop(s.err)
              ELSE [stmt |-> Stmt(<<"UPDATE", GetTable(table), "SET">> \o set.stmt.query
                                    \o tail(s) \o <<";">>, set.stmt.args \o s.stmt.args),
                    ret |-> Nil] :
                set \in { IF upd.kind = "map" THEN updateWithMap(upd.items)
                          ELSE updateWithStruct(upd.items, upd.ok, query.projection) },
                s \in {buildStmt(query, <<>>)} } : TRUE

\* builder.updateMulti (lines 910-966), up to the statement it would execute:
\* stmt is NilStmt and ret what the call returns when nothing is executed.
updateMulti(query, upd, updateWithLimit) ==
    LET table == IF query.table = "" THEN upd.typeName ELSE query.table
        stop(r) == [stmt |-> NilStmt, ret |-> r]
        tail(s) == IF query.limit > 0 /\ ~updateWithLimit
                   THEN <<"WHERE", Quote(pkColumn), "IN", "(", "SELECT", Quote(pkColumn),
                          "FROM", GetTable(table)>> \o s.stmt.query \o <<")">>
                   ELSE s.stmt.query
    IN  IF table = "" THEN stop(Err("missing table name"))
        ELSE IF upd.kind = "map" /\ Len(upd.items) = 0 THEN stop(Nil)
        ELSE IF upd.kind \notin {"map", "struct"} THEN stop(Err("unsupported data type"))
        ELSE CHOOSE r \in
            { IF set.err # Nil THEN stop(set.err)
              ELSE IF s.err # Nil THEN stop(s.err)
              ELSE [stmt |-> Stmt(<<"UPDATE", GetTable(table), "SET">> \o set.stmt.query
                                    \o tail(s) \o <<";">>, set.stmt.args \o s.stmt.args),
                    ret |-> Nil] :
                set \in { IF upd.kind = "map" THEN updateWithMap(upd.items)
                          ELSE updateWithStruct(upd.items, upd.ok, query.projection) },
                s \in {buildStmt(query, <<>>)} } : TRUE

----------------------------------------------------------------------------
(* Query-scoped operations: src/builder.go 404-470, 487-624, 1053-1105,    *)
(* 1130-1135                                                                *)

\* Client.QueryStmt / QueryRowStmt: the statement reaches the connection;
\* ok is whether the query succeeds.
QueryStmt(s, ok) == [ret |-> IF ok THEN Nil ELSE Err("errQuery"), sent |-> <<s>>]

\* The position of the first token t of q at or after position from, 0 when
\* there is none.
IndexFrom(q, t, from) ==
    IF \E i \in from..Len(q) : q[i] = t
    THEN CHOOSE i \in from..Len(q) : q[i] = t /\ \A j \in from..(i - 1) : q[j] # t
    ELSE 0

\* sha1Sign (lines 1130-1135): the digest of the statement's span behind its
\* first FROM up to the next LIMIT, of nothing when there is no such span.
\* The digest is modelled by the span it is taken of, with the bound values.
sha1Sign(s) ==
    LET f == IndexFrom(s.query, "FROM", 1)
        l == IF f = 0 THEN 0 ELSE IndexFrom(s.query, "LIMIT", f + 1)
    IN  IF l = 0 THEN [text |-> <<>>, args |-> <<>>]
        ELSE [text |-> SubSeq(s.query, f + 1, l - 1), args |-> s.args]

NoSignature == [text |-> <<"none">>, args |-> <<>>]

\* An operation's own input: the value of a bulk update, or a cursor.
OpInput(kind, items, ok, typeName, sig) ==
    [kind |-> kind, items |-> items, ok |-> ok, typeName |-> typeName, sig |-> sig]

NoInput == OpInput("none", <<>>, TRUE, "", NoSignature)

\* builder.replaceInto (lines 604-624), up to the statement it executes.
replaceInto(query, table) ==
    LET w == buildWhere(query)
    IN  IF w.err # Nil THEN [stmt |-> NilStmt, err |-> w.err]
        ELSE [stmt |-> Stmt(<<"REPLACE INTO", GetTable(table)>> \o buildSelect(query)
                              \o <<"FROM", GetTable(query.table)>> \o w.stmt.query
                              \o <<";">>, w.stmt.args),
              err |-> Nil]

\* builder.deleteByQuery (lines 1053-1068), up to the statement it executes.
deleteByQuery(query) ==
    LET s == buildStmt(query, <<>>)
    IN  IF s.err # Nil THEN [stmt |-> NilStmt, err |-> s.err]
        ELSE [stmt |-> Stmt(<<"DELETE FROM", GetTable(query.table)>> \o s.stmt.query
                              \o <<";">>, s.stmt.args),
              err |-> Nil]

\* builder.scan (lines 1085-1105), up to the statement it queries with.
scan(query) ==
    LET s == buildStmt(query, <<>>)
    IN  IF s.err # Nil THEN [stmt |-> NilStmt, err |-> s.err]
        ELSE [stmt |-> Stmt(buildSelect(query) \o <<"FROM", GetTable(query.table)>>
                              \o s.stmt.query \o <<";">>, s.stmt.args),
              err |-> Nil]

\* builder.paginate (lines 487-602): the body is commented out; what is left
\* is "return nil".
paginate(query, cursor) == [ret |-> Nil, sent |-> <<>>, populated |-> FALSE]

Filter(field, operator, value) ==
    [field |-> field, operator |-> operator, value |-> value,
     isJSON |-> FALSE, jsonOk |-> TRUE, ifaceOk |-> TRUE]

\* The filters a scope of the model is made of.
Filters ==
    { Filter("Name", "Equal", Scalar(StrElem("a"))),
      Filter("Name", "Equal", NilValue),
      Filter("Age", "NotEqual", NilValue),
      Filter("Age", "GreaterThan", Scalar(IntElem(1))),
      Filter("Name", "In", List(<<StrElem("a"), StrElem("b")>>)),
      Filter("Name", "In", List(<<>>)),
      Filter("Age", "NotIn", List(<<IntElem(1)>>)),
      Filter("Age", "NotIn", List(<<>>)),
      Filter("Name", "AnyLike", List(<<StrElem("a"), StrElem("b")>>)),
      Filter("Name", "AnyLike", List(<<>>)),
      Filter(keyFieldName, "Equal", Scalar(KeyElem(1))),
      Filter(pkColumn, "In", List(<<KeyElem(1), KeyElem(2)>>)),
      Filter(keyFieldName, "In", List(<<>>)),
      Filter(keyFieldName, "Equal", Scalar(IntElem(7))),
      [Filter("Name", "Like", Scalar(StrElem("a"))) EXCEPT !.ifaceOk = FALSE],
      [Filter("Age", "Equal", Scalar(IntElem(1))) EXCEPT !.isJSON = TRUE],
      [Filter("Age", "Equal", Scalar(IntElem(1))) EXCEPT !.isJSON = TRUE, !.jsonOk = FALSE] }

Scope(filters, ancestors, orders, limit, offset, lockMode, noScope, projection) ==
    [table |-> Table, filters |-> filters, ancestors |-> ancestors, orders |-> orders,
     limit |-> limit, offset |-> offset, lockMode |-> lockMode, noScope |-> noScope,
     projection |-> projection, distinctOn |-> <<>>]

AncestorLists ==
    { <<>>,
      <<[isGroup |-> FALSE, data |-> <<Key(5)>>]>>,
      <<[isGroup |-> TRUE, data |-> <<Key(5), Key(6)>>]>> }

OrderLists ==
    { <<>>,
      <<[field |-> "Name", direction |-> "ascending"]>>,
      <<[field |-> keyFieldName, direction |-> "descending"],
        [field |-> "Age", direction |-> "ascending"]>> }

LimitOffsets == { <<0, 0>>, <<2, 0>>, <<2, 1>> }

LockModes == { "NoLock", "ReadLock", "WriteLock" }

Projections == { <<>>, <<"Name">> }

\* The number of parts of a scope that are set besides its filters.
PartsSet(a, o, lo, lm, ns, pr) ==
    (IF a # <<>> THEN 1 ELSE 0) + (IF o # <<>> THEN 1 ELSE 0)
        + (IF lo # <<0, 0>> THEN 1 ELSE 0) + (IF lm # "NoLock" THEN 1 ELSE 0)
        + (IF ns THEN 1 ELSE 0) + (IF pr # <<>> THEN 1 ELSE 0)

\* Two scopes with every part set but the unscoped mark.
FullTails ==
    { <<<<[isGroup |-> FALSE, data |-> <<Key(5)>>]>>,
        <<[field |-> "Name", direction |-> "ascending"]>>,
        <<2, 0>>, "ReadLock", FALSE, <<"Name">>>>,
      <<<<[isGroup |-> TRUE, data |-> <<Key(5), Key(6)>>]>>,
        <<[field |-> keyFieldName, direction |-> "descending"],
          [field |-> "Age", direction |-> "ascending"]>>,
        <<2, 1>>, "WriteLock", FALSE, <<"Name">>>> }

\* What a scope holds besides its filters: at most one part set, or all.
ScopeTails ==
    { t \in AncestorLists \X OrderLists \X LimitOffsets \X LockModes \X BOOLEAN
                \X Projections :
        PartsSet(t[1], t[2], t[3], t[4], t[5], t[6]) <= 1 } \cup FullTails

\* The scopes of the model: up to MaxFilters filters before a tail.
Scopes ==
    { Scope(fs, t[1], t[2], t[3][1], t[3][2], t[4], t[5], t[6]) :
        fs \in SeqsUpTo(Filters, MaxFilters), t \in ScopeTails }

Entry(name, strKey, ok) == [name |-> name, strKey |-> strKey, ok |-> ok, zero |-> FALSE]
Prop(name, zero) == [name |-> name, strKey |-> TRUE, ok |-> TRUE, zero |-> zero]

\* The values handed to a bulk update: maps in an iteration order (a nil or
\* empty map, one and two entries, the key field, a key that is not a string,
\* a value that cannot be converted), structs as the properties SaveStruct
\* gives (all zero, one or both set, a failing conversion), and a value of another
\* kind.
UpdateInputs ==
    { OpInput("map", <<>>, TRUE, "", NoSignature),
      OpInput("map", <<Entry("Name", TRUE, TRUE)>>, TRUE, "", NoSignature),
      OpInput("map", <<Entry("Name", TRUE, TRUE), Entry("Age", TRUE, TRUE)>>, TRUE, "",
              NoSignature),
      OpInput("map", <<Entry("Age", TRUE, TRUE), Entry("Name", TRUE, TRUE)>>, TRUE, "",
              NoSignature),
      OpInput("map", <<Entry("Name", TRUE, TRUE), Entry(keyFieldName, TRUE, TRUE)>>, TRUE, "",
              NoSignature),
      OpInput("map", <<Entry("Name", FALSE, TRUE)>>, TRUE, "", NoSignature),
      OpInput("map", <<Entry("Name", TRUE, FALSE)>>, TRUE, "", NoSignature),
      OpInput("struct", <<Prop(keyFieldName, FALSE), Prop("Name", TRUE), Prop("Age", TRUE)>>,
              TRUE, Table, NoSignature),
      OpInput("struct", <<Prop(keyFieldName, FALSE), Prop("Name", FALSE), Prop("Age", TRUE)>>,
              TRUE, Table, NoSignature),
      OpInput("struct", <<Prop(keyFieldName, TRUE), Prop("Name", FALSE), Prop("Age", FALSE)>>,
              TRUE, Table, NoSignature),
      OpInput("struct", <<Prop(keyFieldName, FALSE), Prop("Name", TRUE), Prop("Age", FALSE)>>,
              TRUE, Table, NoSignature),
      OpInput("struct", <<Prop("Name", FALSE)>>, FALSE, Table, NoSignature),
      OpInput("other", <<>>, TRUE, "", NoSignature) }

\* The query shapes a cursor may have been signed for: the scope itself, and
\* the scope on another table, without its filters, without its ordering.
ShapesOf(query) ==
    { query, [query EXCEPT !.table = "Post"], [query EXCEPT !.filters = <<>>],
      [query EXCEPT !.orders = <<>>] }

\* The cursors handed to Paginate: the empty cursor, and a cursor signed for
\* one of the shapes that compile.
Cursors(query, hasSoftDelete) ==
    { OpInput("nocursor", <<>>, TRUE, "", NoSignature) }
        \cup { OpInput("cursor", <<>>, TRUE, "", sha1Sign(getStmt(a, hasSoftDelete).stmt)) :
                a \in { x \in ShapesOf(query) : getStmt(x, hasSoftDelete).err = Nil } }

QueryInit ==
    /\ cols = <<pkColumn, "Name", "Age">>
    /\ omitFields = {}
    /\ rows = <<>>
    /\ softDelete \in BOOLEAN
    /\ scope \in Scopes
    /\ arg = NoInput
    /\ mop = "none"
    /\ mret = Pending
    /\ sent = <<>>
    /\ conflict = [called |-> FALSE, cols |-> <<>>]
    /\ populated = FALSE
    /\ dialect = "mysql"
    /\ schema = NoTable
    /\ receiver = DefaultHandle
    /\ returned = NoHandle
    /\ TxIdle
    /\ OpenIdle

\* What a call gives when compilation gave (stmt, err) and the statement is
\* then handed to the connection by run.
Compiled(c, run(_)) ==
    IF c.err # Nil THEN [ret |-> c.err, sent |-> <<>>] ELSE run(c.stmt)

\* builder.get (lines 404-436): found is whether the query gives a row.
Get ==
    /\ mop = "none"
    /\ mop' = "get"
    /\ \E g \in {getStmt(scope, softDelete)}, entityOk \in BOOLEAN, queryOk \in BOOLEAN,
          found \in BOOLEAN, mustExist \in BOOLEAN :
        LET x == Compiled(g, LAMBDA s : QueryStmt(s, queryOk))
        IN  IF ~entityOk
                THEN mret' = Err("errEntity") /\ sent' = <<>> /\ populated' = FALSE
            ELSE /\ sent' = x.sent
                 /\ mret' = IF x.ret # Nil THEN x.ret
                            ELSE IF mustExist /\ ~found THEN Err("ErrNoSuchEntity")
                            ELSE Nil
                 /\ populated' = (x.ret = Nil /\ found)
    /\ UNCHANGED <<cols, omitFields, rows, softDelete, scope, arg, conflict>>
    /\ UNCHANGED dialect
    /\ UNCHANGED <<schema, receiver, returned>>
    /\ UNCHANGED nonMutVars

\* builder.getMulti (lines 438-470).
GetMulti ==
    /\ mop = "none"
    /\ mop' = "getMulti"
    /\ \E g \in {getStmt(scope, softDelete)}, entityOk \in BOOLEAN, queryOk \in BOOLEAN :
        LET x == Compiled(g, LAMBDA s : QueryStmt(s, queryOk))
        IN  IF ~entityOk
                THEN mret' = Err("errEntity") /\ sent' = <<>> /\ populated' = FALSE
            ELSE /\ sent' = x.sent
                 /\ mret' = x.ret
                 /\ populated' = (x.ret = Nil)
    /\ UNCHANGED <<cols, omitFields, rows, softDelete, scope, arg, conflict>>
    /\ UNCHANGED dialect
    /\ UNCHANGED <<schema, receiver, returned>>
    /\ UNCHANGED nonMutVars

\* builder.scan (lines 1085-1105).
Scan ==
    /\ mop = "none"
    /\ mop' = "scan"
    /\ \E g \in {scan(scope)}, queryOk \in BOOLEAN :
        LET x == Compiled(g, LAMBDA s : QueryStmt(s, queryOk))
        IN  /\ sent' = x.sent
            /\ mret' = x.ret
            /\ populated' = (x.ret = Nil)
    /\ UNCHANGED <<cols, omitFields, rows, softDelete, scope, arg, conflict>>
    /\ UNCHANGED dialect
    /\ UNCHANGED <<schema, receiver, returned>>
    /\ UNCHANGED nonMutVars

\* Query.Update -> builder.updateMulti (lines 910-966).
Update ==
    /\ mop = "none"
    /\ mop' = "update"
    /\ \E upd \in UpdateInputs, execOk \in BOOLEAN :
        \E u \in {updateMulti(scope, upd, DialectUpdateWithLimit(dialect))} :
        LET x == ExecStmt(u.stmt, execOk)
        IN  /\ arg' = upd
            /\ IF u.stmt.isNil THEN mret' = u.ret /\ sent' = <<>>
               ELSE mret' = x.ret /\ sent' = x.sent
    /\ UNCHANGED <<cols, omitFields, rows, softDelete, scope, conflict, populated>>
    /\ UNCHANGED dialect
    /\ UNCHANGED <<schema, receiver, returned>>
    /\ UNCHANGED nonMutVars

\* Query.Flush -> builder.deleteByQuery (lines 1053-1068).
DeleteByQuery ==
    /\ mop = "none"
    /\ mop' = "deleteByQuery"
    /\ \E g \in {deleteByQuery(scope)}, execOk \in BOOLEAN :
        LET x == Compiled(g, LAMBDA s : ExecStmt(s, execOk))
        IN  mret' = x.ret /\ sent' = x.sent
    /\ UNCHANGED <<cols, omitFields, rows, softDelete, scope, arg, conflict, populated>>
    /\ UNCHANGED dialect
    /\ UNCHANGED <<schema, receiver, returned>>
    /\ UNCHANGED nonMutVars

\* Query.ReplaceInto -> builder.replaceInto (lines 604-624).
ReplaceInto ==
    /\ mop = "none"
    /\ mop' = "replaceInto"
    /\ \E g \in {replaceInto(scope, "Archive")}, execOk \in BOOLEAN :
        LET x == Compiled(g, LAMBDA s : ExecStmt(s, execOk))
        IN  mret' = x.ret /\ sent' = x.sent
    /\ UNCHANGED <<cols, omitFields, rows, softDelete, scope, arg, conflict, populated>>
    /\ UNCHANGED dialect
    /\ UNCHANGED <<schema, receiver, returned>>
    /\ UNCHANGED nonMutVars

\* DB.Paginate (src/db.go 321-323) -> builder.paginate (lines 487-602).
Paginate ==
    /\ mop = "none"
    /\ mop' = "paginate"
    /\ \E cursor \in Cursors(scope, softDelete) :
        LET r == paginate(scope, cursor)
        IN  /\ arg' = cursor
            /\ mret' = r.ret
            /\ sent' = r.sent
            /\ populated' = r.populated
    /\ UNCHANGED <<cols, omitFields, rows, softDelete, scope, conflict>>
    /\ UNCHANGED dialect
    /\ UNCHANGED <<schema, receiver, returned>>
    /\ UNCHANGED nonMutVars

QueryNext ==
    \/ Get
    \/ GetMulti
    \/ Scan
    \/ Update
    \/ DeleteByQuery
    \/ ReplaceInto
    \/ Paginate

SpecQuery == QueryInit /\ [][QueryNext]_vars

----------------------------------------------------------------------------
(* Claims about the query-scoped operations *)

\* A filter with operator In, NotIn or AnyLike whose value is an empty list.
HasEmptyList(query) ==
    \E i \in 1..Len(query.filters) :
        /\ query.filters[i].operator \in {"In", "NotIn", "AnyLike"}
        /\ query.filters[i].value = List(<<>>)

\* C6: an operation that compiles a WHERE fragment (get, getMulti, scan, bulk
\* update, query-scoped delete, replaceInto) over a scope holding an In, NotIn
\* or AnyLike filter with an empty value list returns an error and sends no
\* statement.
C6_EmptyListIsError ==
    (mop \in {"get", "getMulti", "scan", "update", "deleteByQuery", "replaceInto"}
        /\ HasEmptyList(scope))
        => (mret.kind = "error" /\ sent = <<>>)

\* C7: Paginate with a non-empty cursor whose signature was computed for a
\* query shape other than the current one returns ErrInvalidCursor and
\* populates nothing.
C7_ForeignCursorRejected ==
    (mop = "paginate" /\ arg.kind = "cursor"
        /\ getStmt(scope, softDelete).err = Nil
        /\ arg.sig # sha1Sign(getStmt(scope, softDelete).stmt))
        => (mret = Err("ErrInvalidCursor") /\ ~populated)

----------------------------------------------------------------------------
(* The connection registry: src/db/conn.go 11-14, 30-65. Each call of Open  *)
(* is a goroutine; connPool is a sync.Map, the maps stored in it and        *)
(* defaultDB are plain. A write of a plain map or variable takes two steps, *)
(* so that two calls can be inside one at the same time.                    *)

\* The drivers Open is called with; "oracle" has no dialect.
RequestDrivers == Drivers \cup {"oracle"}

OpenInit ==
    /\ connPool = [d \in Drivers |-> 0]
    /\ pools = [m \in Calls |-> {}]
    /\ defaultDB = 0
    /\ openReq \in [Calls -> RequestDrivers]
    /\ openPc = [p \in Calls |-> "start"]
    /\ openPool = [p \in Calls |-> 0]
    /\ race = FALSE
    /\ TxIdle
    /\ MutIdle

\* lines 32-35: GetDialect does not know the driver; Open panics.
OpenUnsupported(p) ==
    /\ openPc[p] = "start"
    /\ openReq[p] \notin Drivers
    /\ openPc' = [openPc EXCEPT ![p] = "panicked"]
    /\ UNCHANGED <<connPool, pools, defaultDB, openReq, openPool, race>>
    /\ UNCHANGED nonOpenVars

\* lines 36-39: pool is a fresh map (the map p), or the map stored for the
\* driver when connPool.Load finds one.
OpenLoad(p) ==
    /\ openPc[p] = "start"
    /\ openReq[p] \in Drivers
    /\ openPool' = [openPool EXCEPT ![p] = IF connPool[openReq[p]] # 0
                                           THEN connPool[openReq[p]] ELSE p]
    /\ openPc' = [openPc EXCEPT ![p] = "loaded"]
    /\ UNCHANGED <<connPool, pools, defaultDB, openReq, race>>
    /\ UNCHANGED nonOpenVars

\* lines 52-58: dialect.Open or conn.Ping fails; Open returns the error.
OpenFail(p) ==
    /\ openPc[p] = "loaded"
    /\ openPc' = [openPc EXCEPT ![p] = "failed"]
    /\ UNCHANGED <<connPool, pools, defaultDB, openReq, openPool, race>>
    /\ UNCHANGED nonOpenVars

\* The calls other than p that are inside a write of the map m.
WritersOf(m, p) == {q \in Calls \ {p} : openPc[q] = "writing" /\ openPool[q] = m}

\* line 60, pool[conf.Database] = db: the write of the plain map begins.
OpenBeginWrite(p) ==
    /\ openPc[p] = "loaded"
    /\ openPc' = [openPc EXCEPT ![p] = "writing"]
    /\ race' = (race \/ WritersOf(openPool[p], p) # {})
    /\ UNCHANGED <<connPool, pools, defaultDB, openReq, openPool>>
    /\ UNCHANGED nonOpenVars

\* line 60: the write ends. Alone in the map, the entry is in it; with
\* another call inside a write of the same map the outcome is not defined:
\* the entry is in the map or it is not.
OpenEndWrite(p) ==
    /\ openPc[p] = "writing"
    /\ \E kept \in BOOLEAN :
        /\ kept \/ WritersOf(openPool[p], p) # {}
        /\ pools' = [pools EXCEPT ![openPool[p]] = IF kept THEN @ \cup {p} ELSE @]
    /\ openPc' = [openPc EXCEPT ![p] = "written"]
    /\ UNCHANGED <<connPool, defaultDB, openReq, openPool, race>>
    /\ UNCHANGED nonOpenVars

\* line 60: the runtime notices two writes of one map and ends the program
\* ("fatal error: concurrent map writes").
OpenFatal(p) ==
    /\ openPc[p] = "writing"
    /\ WritersOf(openPool[p], p) # {}
    /\ openPc' = [q \in Calls |-> "crashed"]
    /\ UNCHANGED <<connPool, pools, defaultDB, openReq, openPool, race>>
    /\ UNCHANGED nonOpenVars

\* line 61: connPool.Store(driver, pool).
OpenStore(p) ==
    /\ openPc[p] = "written"
    /\ connPool' = [connPool EXCEPT ![openReq[p]] = openPool[p]]
    /\ openPc' = [openPc EXCEPT ![p] = "stored"]
    /\ UNCHANGED <<pools, defaultDB, openReq, openPool, race>>
    /\ UNCHANGED nonOpenVars

\* line 63, defaultDB = db: the write of the package variable begins.
OpenBeginAssign(p) ==
    /\ openPc[p] = "stored"
    /\ openPc' = [openPc EXCEPT ![p] = "assigning"]
    /\ race' = (race \/ \E q \in Calls \ {p} : openPc[q] = "assigning")
    /\ UNCHANGED <<connPool, pools, defaultDB, openReq, openPool>>
    /\ UNCHANGED nonOpenVars

\* lines 63-64: the write ends and Open returns the handle.
OpenEndAssign(p) ==
    /\ openPc[p] = "assigning"
    /\ defaultDB' = p
    /\ openPc' = [openPc EXCEPT ![p] = "done"]
    /\ UNCHANGED <<connPool, pools, openReq, openPool, race>>
    /\ UNCHANGED nonOpenVars

OpenNext ==
    \E p \in Calls :
        \/ OpenUnsupported(p)
        \/ OpenLoad(p)
        \/ OpenFail(p)
        \/ OpenBeginWrite(p)
        \/ OpenEndWrite(p)
        \/ OpenFatal(p)
        \/ OpenStore(p)
        \/ OpenBeginAssign(p)
        \/ OpenEndAssign(p)

SpecOpen == OpenInit /\ [][OpenNext]_vars

\* C8: no two Open calls are inside an access of the same plain map or of
\* defaultDB at the same time, and once calls that all succeed have returned,
\* the registry holds a handle for every (driver, database) pair opened.
C8_NoLostEntryNoRace ==
    /\ ~race
    /\ (\A p \in Calls : openPc[p] = "done")
        => \A p \in Calls :
            /\ connPool[openReq[p]] # 0
            /\ p \in pools[connPool[openReq[p]]]

----------------------------------------------------------------------------
(* Further claims about the row-set delete *)

\* C11: when any row of the collection given to Delete or Destroy has an
\* incomplete key, the operation returns an error and sends no statement.
C11_IncompleteKeyIsError ==
    (mop \in {"delete", "destroy"}
        /\ \E i \in 1..Len(rows) : rows[i].key # NilKey /\ Incomplete(rows[i].key))
        => (mret.kind = "error" /\ sent = <<>>)

----------------------------------------------------------------------------
(* Single-entity save: src/builder.go 759-835, src/db.go 259-264            *)

\* The properties saveMutation writes (lines 788-806): the key field is taken
\* out of props, and the omitted ones are skipped; ps is props in the order
\* the map is ranged over.
savedProps(ps, omits) == SelectSeq(ps, LAMBDA k : k # keyFieldName /\ k \notin omits)

\* A saveMutation that does not look at the key it found.
saveMutationAnyKey(row, ps, omits) ==
    LET ws == savedProps(ps, omits)
    IN  IF row.fail \in {"saver", "savestruct", "nokey"}
            THEN [stmt |-> NilStmt, err |-> Err(row.fail)]
        ELSE IF row.fail = "propconv" /\ Len(ws) > 0
            THEN [stmt |-> NilStmt, err |-> Err(row.fail)]
        ELSE [stmt |-> Stmt(<<"UPDATE", GetTable(Table), "SET">>
                              \o (IF Len(ws) = 0 THEN <<>>
                                  ELSE TruncateLast(Flatten([i \in 1..Len(ws) |->
                                          <<Quote(ws[i]), "=", variable, ",">>])))
                              \o <<"WHERE", Quote(pkColumn), "=", variable, ";">>,
                            [i \in 1..Len(ws) |-> Arg("val", ws[i], 1)]
                              \o <<stringPk(row.key)>>),
              err |-> Nil]

\* builder.saveMutation (lines 759-815) on the one-element slice save makes:
\* the Save hook, SaveStruct, the key property (line 784), the nil or
\* incomplete key (line 789), then one "column = ?," per written property
\* and the predicate on the key column with the key's string form last.
saveMutation(row, ps, omits) ==
    LET ws == savedProps(ps, omits)
    IN  IF row.fail \in {"saver", "savestruct", "nokey"}
            THEN [stmt |-> NilStmt, err |-> Err(row.fail)]
        ELSE IF row.key = NilKey \/ Incomplete(row.key)
            THEN [stmt |-> NilStmt, err |-> Err("invalid key value")]
        ELSE IF row.fail = "propconv" /\ Len(ws) > 0
            THEN [stmt |-> NilStmt, err |-> Err(row.fail)]
        ELSE [stmt |-> Stmt(<<"UPDATE", GetTable(Table), "SET">>
                              \o (IF Len(ws) = 0 THEN <<>>
                                  ELSE TruncateLast(Flatten([i \in 1..Len(ws) |->
                                          <<Quote(ws[i]), "=", variable, ",">>])))
                              \o <<"WHERE", Quote(pkColumn), "=", variable, ";">>,
                            [i \in 1..Len(ws) |-> Arg("val", ws[i], 1)]
                              \o <<stringPk(row.key)>>),
              err |-> Nil]

\* The orders a map of the given properties can be ranged over in.
Orderings(ps) ==
    { q \in SeqsUpTo({ps[i] : i \in 1..Len(ps)}, Len(ps)) :
        Len(q) = Len(ps) /\ \A i \in 1..Len(ps) : \E j \in 1..Len(q) : q[j] = ps[i] }

SaveInit ==
    /\ cols \in SubSeqs(NonKeyColumns)
    /\ omitFields \in OmitLists
    /\ rows \in {<<[key |-> k, fail |-> f]>> : k \in DeleteKeys, f \in FailKinds}
    /\ softDelete = FALSE
    /\ scope = <<>>
    /\ arg = <<>>
    /\ mop = "none"
    /\ mret = Pending
    /\ sent = <<>>
    /\ conflict = [called |-> FALSE, cols |-> <<>>]
    /\ populated = FALSE
    /\ dialect = "mysql"
    /\ schema = NoTable
    /\ receiver = DefaultHandle
    /\ returned = NoHandle
    /\ TxIdle
    /\ OpenIdle

\* builder.save (lines 817-835) of a scope with the omission list queryOmits.
save(queryOmits) ==
    /\ \E ps \in Orderings(<<keyFieldName>> \o cols), entityOk \in BOOLEAN, execOk \in BOOLEAN :
        \E m \in {saveMutation(rows[1], ps, queryOmits)} :
        LET x == ExecStmt(m.stmt, execOk)
        IN  IF rows[1].fail = "invalid" THEN mret' = Err("errSinglePtr") /\ sent' = <<>>
            ELSE IF ~entityOk THEN mret' = Err("errEntity") /\ sent' = <<>>
            ELSE IF m.err # Nil THEN mret' = m.err /\ sent' = <<>>
            ELSE mret' = x.ret /\ sent' = x.sent
    /\ UNCHANGED <<cols, omitFields, rows, softDelete, scope, arg, conflict, populated>>
    /\ UNCHANGED dialect
    /\ UNCHANGED <<schema, receiver, returned>>
    /\ UNCHANGED nonMutVars

\* DB.Omit(omitFields...).Save (src/db.go 233-240, 259-264).
Save ==
    /\ mop = "none"
    /\ mop' = "save"
    /\ save(QueryOmit(DBOmit(omitFields)))

SaveNext == Save

SpecSave == SaveInit /\ [][SaveNext]_vars

\* The tokens of a statement text between the tokens from and to.
Between(q, from, to) ==
    SubSeq(q, IndexFrom(q, from, 1) + 1, IndexFrom(q, to, 1) - 1)

\* C12: Save of a model whose key is nil or incomplete returns an error and
\* sends nothing; with a complete key, and no other step of the compilation
\* failing, it sends exactly one UPDATE, never an INSERT, whose predicate is
\* key = ? with the key's string form as last argument, and whose SET clause
\* does not hold the key field.
C12_SaveByKey ==
    mop = "save"
        => IF rows[1].key = NilKey \/ Incomplete(rows[1].key)
           THEN mret.kind = "error" /\ sent = <<>>
           ELSE (rows[1].fail = "none" /\ mret # Err("errEntity"))
                => /\ Len(sent) = 1
                   /\ sent[1].query[1] = "UPDATE"
                   /\ \A i \in 1..Len(sent[1].query) : sent[1].query[i] # "INSERT INTO"
                   /\ SubSeq(sent[1].query, Len(sent[1].query) - 4, Len(sent[1].query))
                        = <<"WHERE", "'$Key'", "=", "?", ";">>
                   /\ sent[1].args[Len(sent[1].args)] = stringPk(rows[1].key)
                   /\ \A t \in {"'__key__'", "'$Key'"} :
                        \A i \in 1..Len(Between(sent[1].query, "SET", "WHERE")) :
                            Between(sent[1].query, "SET", "WHERE")[i] # t

C12_Witness ==
    /\ mop = "save"
    /\ rows[1].key = Key(2)
    /\ Len(sent) = 1
    /\ Len(sent[1].args) = 3
    /\ sent[1].args[3] = stringPk(Key(2))
    /\ sent[1].query[1] = "UPDATE"

----------------------------------------------------------------------------
(* Further claims about the bulk update *)

\* The value of a bulk update holds the key field: as a key of the map, or as
\* a property of the struct that is set.
WouldSetKey(upd) ==
    /\ upd.kind \in {"map", "struct"}
    /\ \E i \in 1..Len(upd.items) :
        upd.items[i].name = keyFieldName /\ (upd.kind = "map" \/ ~upd.items[i].zero)

\* C13: a bulk update from a map or from a struct whose value would set the
\* key field __key__ is rejected with an error, and no UPDATE is sent.
C13_KeyUpdateRejected ==
    (mop = "update" /\ WouldSetKey(arg)) => (mret.kind = "error" /\ sent = <<>>)

----------------------------------------------------------------------------
(* Compilation of well-formed scopes: the operations of the query scope    *)
(* over scopes whose filters are the ones the claims below speak of.       *)

\* The filters of these scopes: comparisons with a value and with nil, on a
\* column and on the key, lists of one to three values, and one empty list.
CoreFilters ==
    { Filter("Name", "Equal", Scalar(StrElem("a"))),
      Filter("Name", "Equal", NilValue),
      Filter("Age", "NotEqual", NilValue),
      Filter(keyFieldName, "Equal", NilValue),
      Filter(pkColumn, "NotEqual", NilValue),
      Filter("Name", "In", List(<<StrElem("a"), StrElem("b")>>)),
      Filter("Age", "NotIn", List(<<IntElem(1)>>)),
      Filter(keyFieldName, "In", List(<<KeyElem(1), KeyElem(2), KeyElem(3)>>)),
      Filter("Name", "In", List(<<>>)) }

\* The tails the longest filter lists are compiled with: no part set, or
\* every part.
ShortTails ==
    { t \in ScopeTails : PartsSet(t[1], t[2], t[3], t[4], t[5], t[6]) = 0
                            \/ (t \in FullTails /\ t[4] = "WriteLock") }

\* Up to MaxFilters filters: the shorter lists before every tail, the lists
\* of MaxFilters filters before the short tails.
CompileScopes ==
    { Scope(fs, t[1], t[2], t[3][1], t[3][2], t[4], t[5], t[6]) :
        fs \in SeqsUpTo(CoreFilters, MaxFilters - 1), t \in ScopeTails }
    \cup { Scope(fs, t[1], t[2], t[3][1], t[3][2], t[4], t[5], t[6]) :
        fs \in [1..MaxFilters -> CoreFilters], t \in ShortTails }

CompileInit ==
    /\ cols = <<pkColumn, "Name", "Age">>
    /\ omitFields = {}
    /\ rows = <<>>
    /\ softDelete \in BOOLEAN
    /\ scope \in CompileScopes
    /\ arg = NoInput
    /\ mop = "none"
    /\ mret = Pending
    /\ sent = <<>>
    /\ conflict = [called |-> FALSE, cols |-> <<>>]
    /\ populated = FALSE
    /\ dialect = "mysql"
    /\ schema = NoTable
    /\ receiver = DefaultHandle
    /\ returned = NoHandle
    /\ TxIdle
    /\ OpenIdle

CompileNext ==
    \/ Get
    \/ GetMulti
    \/ Scan
    \/ Update
    \/ DeleteByQuery
    \/ ReplaceInto

SpecCompile == CompileInit /\ [][CompileNext]_vars

\* The tokens of an UPDATE between SET and the fragment that follows it.
SetClause(q) ==
    LET ends == {i \in 1..Len(q) : q[i] \in {"WHERE", "ORDER BY", "LIMIT", "OFFSET", ";"}}
        stop == CHOOSE i \in ends : \A j \in ends : i <= j
    IN  SubSeq(q, IndexFrom(q, "SET", 1) + 1, stop - 1)

\* The places of the token t in q.
Places(q, t) == {i \in 1..Len(q) : q[i] = t}

\* C14: in the UPDATE a struct-sourced bulk update sends, a non-key field is
\* in the SET clause, once, as "column = ?" with its value among the
\* arguments of the clause, if and only if the field is named in the
\* projection or its value is not zero.
C14_SparseRule ==
    (mop = "update" /\ arg.kind = "struct" /\ Len(sent) = 1)
        => LET set == SetClause(sent[1].query)
               n == Cardinality(Places(set, "?"))
           IN  \A i \in 1..Len(arg.items) :
                 LET p == arg.items[i]
                     wanted == (\E j \in 1..Len(scope.projection) :
                                    scope.projection[j] = p.name) \/ ~p.zero
                     at == Places(set, Quote(p.name))
                     vals == {j \in 1..n : sent[1].args[j].kind = "val"
                                            /\ sent[1].args[j].a = p.name}
                 IN  p.name # keyFieldName
                       => IF wanted
                          THEN /\ Cardinality(at) = 1
                               /\ \A k \in at : set[k + 1] = "=" /\ set[k + 2] = "?"
                               /\ Cardinality(vals) = 1
                          ELSE at = {} /\ vals = {}

C14_Witness ==
    /\ mop = "update"
    /\ arg.kind = "struct"
    /\ Len(sent) = 1
    /\ scope.projection = <<"Name">>
    /\ \E i \in 1..Len(arg.items) : arg.items[i].name = "Name" /\ arg.items[i].zero
    /\ \E i \in 1..Len(arg.items) : arg.items[i].name = "Age" /\ arg.items[i].zero
    /\ SetClause(sent[1].query) = <<"'Name'", "=", "?">>

----------------------------------------------------------------------------
(* Truncate: src/db.go 276-298, src/builder.go 1070-1083                    *)

\* strings.TrimSpace on the table names of the model.
TrimSpace(n) ==
    CASE n = " Post " -> "Post"
      [] n = "  " -> ""
      [] OTHER -> n

\* A model handed to Truncate: a string, a struct (its type name), a value of
\* another kind, or nil; ok is whether the connection runs its statement.
Model(kind, name, ok) == [kind |-> kind, name |-> name, ok |-> ok]

\* lines 280-294 of DB.Truncate for one model: the table name, or why there
\* is none. reflect.Indirect of a nil model is the zero Value, whose Type()
\* panics.
tableOf(m) ==
    IF m.kind = "nil" THEN [err |-> Panic("call of reflect.Value.Type on zero Value"), table |-> ""]
    ELSE IF m.kind \notin {"string", "struct"}
        THEN [err |-> Err("unsupported model"), table |-> ""]
    ELSE IF TrimSpace(m.name) = "" THEN [err |-> Err("missing table name"), table |-> ""]
    ELSE [err |-> Nil, table |-> TrimSpace(m.name)]

\* The first position of ms the predicate bad holds at, 0 when there is none.
FirstWhere(ms, bad(_)) ==
    IF \E i \in 1..Len(ms) : bad(ms[i])
    THEN CHOOSE i \in 1..Len(ms) : bad(ms[i]) /\ \A j \in 1..(i - 1) : ~bad(ms[j])
    ELSE 0

\* A truncate that goes on after a statement failed.
truncateAll(ms) ==
    [ret |-> IF FirstWhere(ms, LAMBDA m : ~m.ok) = 0 THEN Nil ELSE Err("errExec"),
     sent |-> [i \in 1..Len(ms) |->
                 Stmt(<<"TRUNCATE TABLE", GetTable(tableOf(ms[i]).table), ";">>, <<>>)]]

\* builder.truncate (lines 1070-1083): one statement per table, in order, up
\* to the first one the connection fails.
truncate(ms) ==
    LET f == FirstWhere(ms, LAMBDA m : ~m.ok)
        n == IF f = 0 THEN Len(ms) ELSE f
    IN  [ret |-> IF f = 0 THEN Nil ELSE Err("errExec"),
         sent |-> [i \in 1..n |->
                     Stmt(<<"TRUNCATE TABLE", GetTable(tableOf(ms[i]).table), ";">>, <<>>)]]

Models ==
    { Model(k[1], k[2], ok) :
        k \in { <<"string", "User">>, <<"string", " Post ">>, <<"struct", "Archive">>,
                <<"string", "  ">>, <<"struct", "">>, <<"other", "">>, <<"nil", "">> },
        ok \in BOOLEAN }

TruncateInit ==
    /\ cols = <<>>
    /\ omitFields = {}
    /\ rows \in SeqsUpTo(Models, MaxTables)
    /\ softDelete = FALSE
    /\ scope = <<>>
    /\ arg = <<>>
    /\ mop = "none"
    /\ mret = Pending
    /\ sent = <<>>
    /\ conflict = [called |-> FALSE, cols |-> <<>>]
    /\ populated = FALSE
    /\ dialect = "mysql"
    /\ schema = NoTable
    /\ receiver = DefaultHandle
    /\ returned = NoHandle
    /\ TxIdle
    /\ OpenIdle

\* DB.Truncate (src/db.go 276-298): every model is turned into a table name
\* before builder.truncate is called.
Truncate ==
    /\ mop = "none"
    /\ mop' = "truncate"
    /\ LET b == FirstWhere(rows, LAMBDA m : tableOf(m).err # Nil)
           t == truncate(rows)
       IN  IF b # 0 THEN mret' = tableOf(rows[b]).err /\ sent' = <<>>
           ELSE mret' = t.ret /\ sent' = t.sent
    /\ UNCHANGED <<cols, omitFields, rows, softDelete, scope, arg, conflict, populated>>
    /\ UNCHANGED dialect
    /\ UNCHANGED <<schema, receiver, returned>>
    /\ UNCHANGED nonMutVars

TruncateNext == Truncate

SpecTruncate == TruncateInit /\ [][TruncateNext]_vars

\* C15: Truncate sends one TRUNCATE per table, in list order; when the
\* statement of a table fails, that error is returned and nothing is sent for
\* the tables behind it; when a model of the list gives an unsupported type
\* or an empty table name, nothing is sent for any table.
C15_TruncateInOrder ==
    mop = "truncate"
        => LET bad == FirstWhere(rows, LAMBDA m : m.kind \notin {"string", "struct"}
                                                  \/ TrimSpace(m.name) = "")
               f == FirstWhere(rows, LAMBDA m : ~m.ok)
               n == IF f = 0 THEN Len(rows) ELSE f
           IN  IF bad # 0 THEN sent = <<>>
               ELSE /\ Len(sent) = n
                    /\ \A i \in 1..n :
                        sent[i].query = <<"TRUNCATE TABLE", Quote(TrimSpace(rows[i].name)), ";">>
                    /\ mret = IF f = 0 THEN Nil ELSE Err("errExec")

C15_Witness ==
    /\ mop = "truncate"
    /\ Len(rows) = 3
    /\ rows[1].ok /\ ~rows[2].ok /\ rows[3].ok
    /\ Len(sent) = 2
    /\ sent[1].query # sent[2].query
    /\ mret = Err("errExec")

----------------------------------------------------------------------------
(* The compiled SELECT                                                      *)

\* Whether the tokens p stand in q, one behind the other.
HasSeq(q, p) == \E i \in 1..(Len(q) - Len(p) + 1) : SubSeq(q, i, i + Len(p) - 1) = p

\* The predicate getStmt adds for an entity with a soft-delete column.
SoftDeletePredicate == <<Quote(softDeleteColumn), "IS NULL">>

\* C16: the statement getStmt compiles holds the predicate "soft-delete
\* column IS NULL" exactly when the entity declares a soft-delete column and
\* the query is not unscoped; the predicate brings no argument: the statement
\* has as many arguments as placeholders.
C16_SoftDeleteScope ==
    (mop \in {"get", "getMulti"} /\ sent # <<>>)
        => /\ HasSeq(sent[1].query, SoftDeletePredicate) <=> (softDelete /\ ~scope.noScope)
           /\ Cardinality(Places(sent[1].query, variable)) = Len(sent[1].args)
           /\ HasSeq(sent[1].query, SoftDeletePredicate)
                => /\ "WHERE" \in {sent[1].query[i] : i \in 1..Len(sent[1].query)}
                   /\ ~HasSeq(sent[1].query, SoftDeletePredicate \o <<variable>>)

C16_Witness ==
    /\ mop = "getMulti"
    /\ softDelete
    /\ ~scope.noScope
    /\ Len(scope.filters) = 2
    /\ sent # <<>>
    /\ Len(sent[1].args) = 3
    /\ HasSeq(sent[1].query, <<"AND">> \o SoftDeletePredicate)

\* The pieces of ts between the tokens sep.
RECURSIVE SplitOn(_, _)
SplitOn(ts, sep) ==
    IF IndexFrom(ts, sep, 1) = 0 THEN <<ts>>
    ELSE <<SubSeq(ts, 1, IndexFrom(ts, sep, 1) - 1)>>
            \o SplitOn(SubSeq(ts, IndexFrom(ts, sep, 1) + 1, Len(ts)), sep)

\* The tokens that end the WHERE fragment of a statement.
WhereEnds == {"ORDER BY", "LIMIT", "OFFSET", "LOCK IN SHARE MODE", "FOR UPDATE", ";"}

\* The predicates of the WHERE fragment of q, in order: what stands between
\* WHERE and the next fragment, cut at the ANDs.
Predicates(q) ==
    LET w == IndexFrom(q, "WHERE", 1)
        end == CHOOSE i \in (w + 1)..Len(q) :
                    q[i] \in WhereEnds /\ \A j \in (w + 1)..(i - 1) : q[j] \notin WhereEnds
    IN  IF w = 0 THEN <<>> ELSE SplitOn(SubSeq(q, w + 1, end - 1), "AND")

\* The column a filter on field is compiled against.
Column(field) ==
    IF field \in {keyFieldName, pkColumn} THEN Quote(pkColumn) ELSE Quote(field)

\* The operations whose statement carries the WHERE fragment of the scope.
WhereOps == {"get", "getMulti", "update", "deleteByQuery"}

\* C17: an Equal filter with a nil value compiles to "column IS NULL" and a
\* NotEqual filter with a nil value to "column IS NOT NULL", for every field,
\* the key field included; the predicate holds no placeholder and adds no
\* argument: the statement has as many arguments as placeholders.
C17_NilComparesAsNull ==
    (mop \in WhereOps /\ sent # <<>>)
        => /\ Cardinality(Places(sent[1].query, variable)) = Len(sent[1].args)
           /\ \A i \in 1..Len(scope.filters) :
                (scope.filters[i].value = NilValue
                    /\ scope.filters[i].operator \in {"Equal", "NotEqual"})
                    => Predicates(sent[1].query)[i]
                         = <<Column(scope.filters[i].field),
                             IF scope.filters[i].operator = "Equal"
                             THEN "IS NULL" ELSE "IS NOT NULL">>

C17_Witness ==
    /\ mop = "get"
    /\ sent # <<>>
    /\ Len(scope.filters) = 2
    /\ scope.filters[1] = Filter(keyFieldName, "Equal", NilValue)
    /\ scope.filters[2] = Filter("Age", "NotEqual", NilValue)
    /\ Predicates(sent[1].query) = << <<Quote(pkColumn), "IS NULL">>, <<Quote("Age"), "IS NOT NULL">> >>
    /\ sent[1].args = <<>>

\* The number of placeholders of q in front of its i-th predicate.
PlacesBefore(q, i) ==
    Cardinality({p \in Places(q, variable) :
        p <= IndexFrom(q, "WHERE", 1) + Len(Flatten(SubSeq(Predicates(q), 1, i - 1))) + (i - 1)})

\* The values an In or NotIn filter binds: the key strings of a filter on the
\* key, the database form of the values of any other filter.
BoundValues(f) ==
    IF f.field \in {keyFieldName, pkColumn} THEN interfaceToKeyString(f.value).val.elems
    ELSE FilterInterface(f).val.elems

\* C18: an In or NotIn filter with a list of n >= 1 values compiles to the
\* one predicate "column IN (?,...,?)" or "column NOT IN (?,...,?)" with
\* exactly n placeholders separated by commas, never to equalities joined by
\* OR, and its n values are the arguments of those placeholders, in the order
\* of the list.
C18_InListPredicate ==
    (mop \in WhereOps /\ sent # <<>>)
        => \A i \in 1..Len(scope.filters) :
            LET f == scope.filters[i]
                n == Len(f.value.elems)
                k == PlacesBefore(sent[1].query, i)
            IN  (f.operator \in {"In", "NotIn"} /\ f.value.kind = "list" /\ n >= 1)
                    => /\ Predicates(sent[1].query)[i]
                            = <<Column(f.field), IF f.operator = "In" THEN "IN" ELSE "NOT IN", "(">>
                                \o PlaceholderList(n) \o <<")">>
                       /\ Len(sent[1].args) >= k + n
                       /\ SubSeq(sent[1].args, k + 1, k + n) = BoundValues(f)

C18_Witness ==
    /\ mop = "getMulti"
    /\ sent # <<>>
    /\ Len(scope.filters) = 2
    /\ scope.filters[1] = Filter("Name", "In", List(<<StrElem("a"), StrElem("b")>>))
    /\ scope.filters[2].operator = "In"
    /\ Len(scope.filters[2].value.elems) = 3
    /\ Len(sent[1].args) = 5
    /\ PlacesBefore(sent[1].query, 2) = 2
    /\ sent[1].args[3] = stringPk(Key(1))
    /\ sent[1].args[5] = stringPk(Key(3))

\* The lock clause getStmt writes for a lock mode.
LockClause(lockMode) ==
    IF lockMode = "ReadLock" THEN "LOCK IN SHARE MODE"
    ELSE IF lockMode = "WriteLock" THEN "FOR UPDATE"
    ELSE ""

\* Whether the fragments of q named in order stand in q in that order, each
\* at most once.
InOrder(q, order) ==
    /\ \A i \in 1..Len(order) : Cardinality(Places(q, order[i])) <= 1
    /\ \A i, j \in 1..Len(order) :
        i < j => \A a \in Places(q, order[i]), b \in Places(q, order[j]) : a < b

\* What every locking SELECT of getStmt holds whatever the order of its
\* fragments: SELECT first, FROM, one lock clause, the terminator last, and
\* ORDER BY, LIMIT and OFFSET when the scope asks for them.
LockingSelect(q) ==
    /\ q[1] = "SELECT"
    /\ Places(q, "FROM") # {}
    /\ Places(q, LockClause(scope.lockMode)) # {}
    /\ q[Len(q)] = ";"
    /\ (Places(q, "ORDER BY") # {}) <=> (scope.orders # <<>>)
    /\ (Places(q, "LIMIT") # {}) <=> (scope.limit > 0)
    /\ (Places(q, "OFFSET") # {}) <=> (scope.offset > 0)

\* C19 as claimed: in a statement of getStmt with a lock mode the fragments
\* stand in the order SELECT, FROM, WHERE, lock clause, ORDER BY,
\* LIMIT/OFFSET, terminator.
C19_LockBeforeOrder ==
    (mop \in {"get", "getMulti"} /\ sent # <<>> /\ scope.lockMode # "NoLock")
        => /\ LockingSelect(sent[1].query)
           /\ InOrder(sent[1].query,
                      <<"SELECT", "FROM", "WHERE", LockClause(scope.lockMode),
                        "ORDER BY", "LIMIT", "OFFSET", ";">>)

\* C19 amended: in a statement of getStmt with a lock mode the fragments
\* stand in the order SELECT, FROM, WHERE, ORDER BY, LIMIT/OFFSET, lock
\* clause, terminator: the lock clause is the last fragment before the
\* terminator.
C19_LockAfterLimit ==
    (mop \in {"get", "getMulti"} /\ sent # <<>> /\ scope.lockMode # "NoLock")
        => /\ LockingSelect(sent[1].query)
           /\ InOrder(sent[1].query,
                      <<"SELECT", "FROM", "WHERE", "ORDER BY", "LIMIT", "OFFSET",
                        LockClause(scope.lockMode), ";">>)
           /\ sent[1].query[Len(sent[1].query) - 1] = LockClause(scope.lockMode)

C19_Witness ==
    /\ mop = "get"
    /\ sent # <<>>
    /\ scope.lockMode = "WriteLock"
    /\ Len(scope.filters) = 1
    /\ Len(scope.orders) = 2
    /\ scope.limit = 2
    /\ scope.offset = 1
    /\ Places(sent[1].query, "WHERE") # {}
    /\ Places(sent[1].query, "FOR UPDATE") = {Len(sent[1].query) - 1}

----------------------------------------------------------------------------
(* Ancestor patterns: src/builder.go 218-234                                *)

\* The letters of a key string and of a LIKE pattern: a path segment
\* (kind,identifier), the delimiter of src/db.go line 26, the wildcard %.
Segment(kind, id) == [t |-> "segment", kind |-> kind, id |-> id]
keyDelimeter == [t |-> "/", kind |-> "", id |-> 0]
Wildcard == [t |-> "%", kind |-> "", id |-> 0]

\* The string form of a path of segments: the segments joined by the
\* delimiter.
StringForm(path) == Join(path, keyDelimeter)

\* The string form of the key an ancestor argument was made of.
AncestorString(a) ==
    StringForm((IF a.b \div 100 # 0 THEN <<Segment(ParentKey.kind, a.b \div 100)>> ELSE <<>>)
                    \o <<Segment(a.a, a.b % 100)>>)

\* The pattern fmt.Sprintf("%%%s/%%", ...) makes (lines 224 and 233): a
\* wildcard, the key string, the delimiter, a wildcard.
LikePattern(a) == <<Wildcard>> \o AncestorString(a) \o <<keyDelimeter, Wildcard>>

\* SQL LIKE: the wildcard stands for any run of letters.
RECURSIVE Like(_, _)
Like(s, pattern) ==
    IF pattern = <<>> THEN s = <<>>
    ELSE IF Head(pattern) = Wildcard
        THEN \E i \in 0..Len(s) : Like(SubSeq(s, i + 1, Len(s)), Tail(pattern))
    ELSE s # <<>> /\ Head(s) = Head(pattern) /\ Like(Tail(s), Tail(pattern))

\* strings.HasPrefix.
HasPrefix(s, prefix) == Len(s) >= Len(prefix) /\ SubSeq(s, 1, Len(prefix)) = prefix

\* Key strings a table may hold: children of the ancestors of the model,
\* the ancestors themselves, and keys that hold an ancestor further along
\* their path.
StoredKeys ==
    { StringForm(p) :
        p \in { <<Segment(Table, 5)>>,
                <<Segment(Table, 5), Segment("Post", 1)>>,
                <<Segment(Table, 6), Segment("Post", 2)>>,
                <<Segment(Table, 7), Segment("Post", 1)>>,
                <<Segment("Org", 9), Segment(Table, 5), Segment("Post", 1)>>,
                <<Segment("Org", 9), Segment(Table, 6), Segment("Post", 2)>> } }

\* C20: the LIKE argument of every ancestor constraint, single or in a group,
\* is the string form of the ancestor key, the delimiter and a trailing
\* wildcard, anchored at the start: it matches only keys whose string form
\* begins with the string form of the ancestor.
C20_AncestorPrefixMatch ==
    (mop \in WhereOps /\ sent # <<>>)
        => \A i \in 1..Len(sent[1].args) :
            sent[1].args[i].kind = "%key/%"
                => /\ Head(LikePattern(sent[1].args[i])) # Wildcard
                   /\ \A s \in StoredKeys :
                        Like(s, LikePattern(sent[1].args[i]))
                            => HasPrefix(s, AncestorString(sent[1].args[i]) \o <<keyDelimeter>>)

----------------------------------------------------------------------------
(* Bulk update on either dialect: src/builder.go 910-966                    *)

UpdateInit ==
    /\ cols = <<pkColumn, "Name", "Age">>
    /\ omitFields = {}
    /\ rows = <<>>
    /\ softDelete \in BOOLEAN
    /\ scope \in CompileScopes
    /\ arg = NoInput
    /\ mop = "none"
    /\ mret = Pending
    /\ sent = <<>>
    /\ conflict = [called |-> FALSE, cols |-> <<>>]
    /\ populated = FALSE
    /\ dialect \in {"mysql", "postgres"}
    /\ schema = NoTable
    /\ receiver = DefaultHandle
    /\ returned = NoHandle
    /\ TxIdle
    /\ OpenIdle

UpdateNext == Update

SpecUpdate == UpdateInit /\ [][UpdateNext]_vars

\* How the predicate of a bulk UPDATE starts when it is wrapped in a subquery
\* on the key.
SubqueryHead(table) ==
    <<"WHERE", Quote(pkColumn), "IN", "(", "SELECT", Quote(pkColumn), "FROM", GetTable(table)>>

\* Whether q ends with the tokens t.
HasSuffix(q, t) == Len(q) >= Len(t) /\ SubSeq(q, Len(q) - Len(t) + 1, Len(q)) = t

\* C21: the predicate of a bulk UPDATE is wrapped as "key IN (SELECT key FROM
\* the same table, the same WHERE, ORDER BY and LIMIT)" exactly when the limit
\* of the scope is above zero and the dialect has no UPDATE with LIMIT;
\* otherwise WHERE, ORDER BY and LIMIT follow the SET clause directly. In both
\* forms the arguments are those of the SET clause followed by those of the
\* predicate.
C21_UpdateWithLimit ==
    (mop = "update" /\ sent # <<>>)
        => \A frag \in {buildStmt(scope, <<>>).stmt} :
           \A tail \in {IF scope.limit > 0 /\ dialect = "postgres"
                         THEN SubqueryHead(scope.table) \o frag.query \o <<")", ";">>
                         ELSE frag.query \o <<";">>} :
           \A set \in {SubSeq(sent[1].query, 4, Len(sent[1].query) - Len(tail))} :
           \A n \in {Cardinality(Places(set, variable))} :
               /\ HasSeq(sent[1].query, <<"IN", "(", "SELECT">>)
                    <=> (scope.limit > 0 /\ dialect = "postgres")
               /\ HasSuffix(sent[1].query, tail)
               /\ SubSeq(sent[1].query, 1, 3) = <<"UPDATE", GetTable(scope.table), "SET">>
               /\ n >= 1
               /\ ~\E i \in 1..Len(set) : set[i] \in {"WHERE", "SELECT", "ORDER BY", "LIMIT"}
               /\ Len(sent[1].args) = n + Len(frag.args)
               /\ SubSeq(sent[1].args, n + 1, Len(sent[1].args)) = frag.args
               /\ \A i \in 1..n : sent[1].args[i].kind \notin {"%key/%", "pk"}

C21_Witness ==
    /\ mop = "update"
    /\ dialect = "postgres"
    /\ scope.limit = 2
    /\ Len(scope.orders) = 2
    /\ Len(scope.filters) = 1
    /\ sent # <<>>
    /\ HasSeq(sent[1].query, SubqueryHead(scope.table) \o <<"WHERE">>)
    /\ HasSuffix(sent[1].query, <<"LIMIT", "2", "OFFSET", "1", ")", ";">>)
    /\ Len(sent[1].args) >= 3

----------------------------------------------------------------------------
(* RunInTransaction on a handle that cannot begin                           *)

\* C22: RunInTransaction on a handle whose connection is not begin-capable,
\* the handle passed to a callback included, returns an error; its callback
\* is not invoked, it issues no begin, commit or rollback, and an enclosing
\* transaction stays as it was: still active, with its one begin, until the
\* enclosing callback ends.
C22_NoBeginNoTransaction ==
    /\ (pc = "returned" /\ ~isSqlDB(sqlCommon))
        => /\ ritRet.kind = "error"
           /\ cbRet = Pending
           /\ txCalls = <<>>
           /\ stmts = <<>>
           /\ tx = "none"
    /\ nested # Pending
        => /\ nested.kind = "error"
           /\ Cardinality(CallsNamed("begin")) = 1
           /\ \A i \in 1..Len(stmts) : stmts[i].by # "builder" \/ stmts[i].conn = "sqlTx"
           /\ pc = "callback" => (tx = "active" /\ Len(txCalls) = 1)
           /\ pc = "returned" => Len(txCalls) \in {2, 3}

C22_Witness ==
    /\ nested.kind = "error"
    /\ pc = "returned"
    /\ cbRet = Nil
    /\ tx = "committed"
    /\ Len(stmts) >= 1

----------------------------------------------------------------------------
(* Every statement of the builder: src/builder.go 404-1105                  *)

\* What the caller hands to the operation: a collection of entities to
\* insert, one entity to save, a collection of entities to delete by their
\* keys, or nothing but the scope of the query.
Entities == OpInput("entities", <<>>, TRUE, Table, NoSignature)
OneEntity == OpInput("entity", <<>>, TRUE, Table, NoSignature)
KeyedEntities == OpInput("keyed", <<>>, TRUE, Table, NoSignature)

BuildFilters ==
    { Filter("Name", "Equal", Scalar(StrElem("a"))),
      Filter("Age", "NotEqual", NilValue),
      Filter("Age", "NotIn", List(<<IntElem(1), IntElem(2)>>)),
      Filter(keyFieldName, "In", List(<<KeyElem(1), KeyElem(2), KeyElem(3)>>)),
      Filter("Name", "AnyLike", List(<<StrElem("a"), StrElem("b")>>)) }

BuildTails ==
    ShortTails \cup { t \in ScopeTails : t[1] # <<>> \/ t[3] = <<2, 0>> }

BuildScopes ==
    { Scope(fs, t[1], t[2], t[3][1], t[3][2], t[4], t[5], t[6]) :
        fs \in SeqsUpTo(BuildFilters, MaxFilters - 1), t \in BuildTails }
    \cup { Scope(fs, t[1], t[2], t[3][1], t[3][2], t[4], t[5], t[6]) :
            fs \in [1..MaxFilters -> BuildFilters], t \in ShortTails }

BuildInit ==
    /\ \/ /\ arg = Entities
          /\ cols \in {<<pkColumn, "Name", "Age">>, <<"Name", pkColumn>>}
          /\ omitFields \in {{}, {"Name"}}
          /\ rows \in PutRows
          /\ softDelete = FALSE
          /\ scope = <<>>
          /\ dialect = "mysql"
          /\ schema = NoTable
          /\ receiver = DefaultHandle
          /\ returned = NoHandle
       \/ /\ arg = OneEntity
          /\ cols \in SubSeqs(NonKeyColumns)
          /\ omitFields \in {{}, {"Name"}}
          /\ rows \in {<<[key |-> k, fail |-> f]>> : k \in DeleteKeys, f \in FailKinds}
          /\ softDelete = FALSE
          /\ scope = <<>>
          /\ dialect = "mysql"
          /\ schema = NoTable
          /\ receiver = DefaultHandle
          /\ returned = NoHandle
       \/ /\ arg = KeyedEntities
          /\ cols = <<pkColumn, "Name", "Age">>
          /\ omitFields = {}
          /\ rows \in DeleteRows
          /\ softDelete \in BOOLEAN
          /\ scope = <<>>
          /\ dialect = "mysql"
          /\ schema = NoTable
          /\ receiver = DefaultHandle
          /\ returned = NoHandle
       \/ /\ arg = NoInput
          /\ cols = <<pkColumn, "Name", "Age">>
          /\ omitFields = {}
          /\ rows = <<>>
          /\ softDelete \in BOOLEAN
          /\ scope \in BuildScopes
          /\ dialect \in {"mysql", "postgres"}
          /\ schema = NoTable
          /\ receiver = DefaultHandle
          /\ returned = NoHandle
    /\ mop = "none"
    /\ mret = Pending
    /\ sent = <<>>
    /\ conflict = [called |-> FALSE, cols |-> <<>>]
    /\ populated = FALSE
    /\ TxIdle
    /\ OpenIdle

BuildNext ==
    \/ arg = Entities /\ Create
    \/ arg = Entities /\ Upsert
    \/ arg = OneEntity /\ Save
    \/ arg = KeyedEntities /\ Delete
    \/ arg = KeyedEntities /\ Destroy
    \/ arg = NoInput /\ Get
    \/ arg = NoInput /\ GetMulti
    \/ arg = NoInput /\ Scan
    \/ arg = NoInput /\ Update
    \/ arg = NoInput /\ DeleteByQuery
    \/ arg = NoInput /\ ReplaceInto

SpecBuild == BuildInit /\ [][BuildNext]_vars

\* The position of the j-th placeholder of q.
NthPlace(q, j) ==
    CHOOSE p \in Places(q, variable) : Cardinality({x \in Places(q, variable) : x < p}) = j - 1

\* The values a filter binds, in the order of its placeholders: none for a
\* nil value compared with Equal or NotEqual, the values of the list for In,
\* NotIn and AnyLike, the one value otherwise.
FilterValues(f) ==
    IF f.value = NilValue /\ f.operator \in {"Equal", "NotEqual"} THEN <<>>
    ELSE IF f.operator \in {"In", "NotIn", "AnyLike"}
        THEN asList([kind |-> f.value.kind, elems |-> BoundValues(f)])
    ELSE <<asArg([kind |-> f.value.kind, elems |-> BoundValues(f)])>>

\* The values the predicates of the WHERE fragment bind, predicate by
\* predicate: the filters in order, the soft-delete filter of a SELECT of
\* entities, the ancestors in order.
PredicateValues(query, scoped) ==
    [i \in 1..Len(query.filters) |-> FilterValues(query.filters[i])]
        \o (IF scoped THEN << <<>> >> ELSE <<>>)
        \o [i \in 1..Len(query.ancestors) |->
                [j \in 1..Len(query.ancestors[i].data) |->
                    ancestorPattern(query.ancestors[i].data[j])]]

\* The statement a bulk UPDATE wraps is the text from its SELECT on.
Inner(q) ==
    IF HasSeq(q, <<"IN", "(", "SELECT">>)
    THEN SubSeq(q, IndexFrom(q, "SELECT", 1), Len(q))
    ELSE q

\* Whether the first n arguments of s are the values of the columns its first
\* n placeholders are assigned to by "column = ?".
AssignsColumns(s, n) ==
    \A j \in 1..n :
        /\ s.query[NthPlace(s.query, j) - 1] = "="
        /\ s.args[j].kind = "val"
        /\ s.query[NthPlace(s.query, j) - 2] = Quote(s.args[j].a)

\* Whether the arguments of s from the one behind the n-th on are the values
\* vs binds, predicate by predicate of the text t.
BindsPredicates(s, t, n, vs) ==
    /\ Len(Predicates(t)) = Len(vs)
    /\ \A i \in 1..Len(vs) : Cardinality(Places(Predicates(t)[i], variable)) = Len(vs[i])
    /\ SubSeq(s.args, n + 1, Len(s.args)) = Flatten(vs)

\* Whether s is an INSERT of the rows with their values in row-then-column
\* order, one bracketed placeholder list per row.
BindsRows(s) ==
    /\ Len(s.args) = Len(rows) * Len(cols)
    /\ \A k \in 1..Len(s.args) :
        LET c == cols[((k - 1) % Len(cols)) + 1]
            i == ((k - 1) \div Len(cols)) + 1
        IN  /\ IF c = pkColumn THEN s.args[k].kind = "pk" ELSE s.args[k] = Arg("val", c, i)
            /\ s.query[NthPlace(s.query, k) - 1]
                    = IF (k - 1) % Len(cols) = 0 THEN "(" ELSE ","
            /\ (k - 1) % Len(cols) = 0
                    => s.query[NthPlace(s.query, k) - 2]
                            = IF k = 1 THEN "VALUES" ELSE ","

\* C23: in every statement the builder sends (SELECT, INSERT and upsert,
\* Save, bulk update in both forms, soft and hard delete, delete by query,
\* replaceInto), for scopes without JSON filters, the text holds as many
\* placeholders as the statement has arguments, and the i-th argument is the
\* value of the i-th placeholder: SET values before filter values, filter
\* values before ancestor patterns, row values in row-then-column order.
C23_PlaceholdersAligned ==
    \A x \in 1..Len(sent) : \A s \in {sent[x]} : \A n \in {Cardinality(Places(s.query, variable))} :
        /\ n = Len(s.args)
        /\ mop \in {"create", "upsert"} => BindsRows(s)
        /\ mop = "save"
            => /\ AssignsColumns(s, n - 1)
               /\ SubSeq(s.query, NthPlace(s.query, n) - 2, NthPlace(s.query, n) - 1)
                    = <<Quote(pkColumn), "=">>
               /\ s.args[n] = stringPk(rows[1].key)
               /\ IndexFrom(s.query, "WHERE", 1) = NthPlace(s.query, n) - 3
        /\ mop \in {"delete", "destroy"}
            => /\ s.args = (IF mop = "delete" /\ softDelete THEN <<Now>> ELSE <<>>) \o KeyArgs(rows)
               /\ (mop = "delete" /\ softDelete)
                    => SubSeq(s.query, NthPlace(s.query, 1) - 2, NthPlace(s.query, 1) - 1)
                            = <<Quote(softDeleteColumn), "=">>
               /\ HasSuffix(s.query, <<Quote(pkColumn), "IN", "(">>
                                        \o PlaceholderList(Len(rows)) \o <<")", ";">>)
        /\ mop \in {"get", "getMulti"}
            => BindsPredicates(s, s.query, 0,
                               PredicateValues(scope, softDelete /\ ~scope.noScope))
        /\ mop \in {"scan", "deleteByQuery", "replaceInto"}
            => BindsPredicates(s, s.query, 0, PredicateValues(scope, FALSE))
        /\ mop = "update"
            => \A m \in {Cardinality(Places(SetClause(s.query), variable))} :
                /\ AssignsColumns(s, m)
                /\ BindsPredicates(s, Inner(s.query), m, PredicateValues(scope, FALSE))

C23_Witness ==
    /\ mop = "update"
    /\ dialect = "postgres"
    /\ sent # <<>>
    /\ Len(scope.filters) = 2
    /\ Len(scope.ancestors) = 1
    /\ scope.ancestors[1].isGroup
    /\ Cardinality(Places(SetClause(sent[1].query), variable)) = 2
    /\ Len(sent[1].args) >= 6
    /\ sent[1].args[Len(sent[1].args)].kind = "%key/%"

\* C24: Create, Upsert, Delete and Destroy called with zero rows return
\* success and send no statement; no statement with an empty key list
\* "IN ( )" or an empty VALUES list is ever sent.
C24_EmptyRowsSendNothing ==
    /\ (mop \in {"create", "upsert", "delete", "destroy"} /\ rows = <<>>)
        => /\ sent = <<>>
           /\ mret \in {Nil, Err("errEntity")}
    /\ \A i \in 1..Len(sent) :
        /\ ~HasSeq(sent[i].query, <<"IN", "(", ")">>)
        /\ ~HasSeq(sent[i].query, <<"VALUES", ";">>)
        /\ ~HasSeq(sent[i].query, <<"VALUES", "ON DUPLICATE KEY UPDATE">>)

\* C25: every UPDATE sent by Save or by a bulk update from a struct has at
\* least one "column = ?" assignment in its SET clause; when no field
\* qualifies the operation returns an error or sends nothing, and never
\* faults or sends an UPDATE whose SET clause is empty or truncated.
C25_NonEmptySet ==
    (mop = "save" \/ (mop = "update" /\ arg.kind = "struct"))
        => /\ mret.kind # "panic"
           /\ \A i \in 1..Len(sent) :
                /\ Cardinality(Places(SetClause(sent[i].query), variable)) >= 1
                /\ ~HasSeq(sent[i].query, <<"SET", "WHERE">>)

----------------------------------------------------------------------------
(* Schema migration: src/builder.go 50-71 and 306-331, part_001 108-205.   *)
(* The engine's side (HasTable, GetColumns, GetIndexes, HasIndex and what  *)
(* a statement does to the table) is not in the source and follows the     *)
(* specification's "column/table existence and introspection".             *)

\* A column of the model: its name, SQL type and whether it is indexed.
SchemaColumn(name, type, indexed) == [Name |-> name, DataType |-> type, IsIndexed |-> indexed]

\* mysql.DataType (part_001 77-96) of a nullable column without a character
\* set: the declared type.
DataType(sc) == sc.DataType

\* The index name mysql.CreateTable gives an indexed column (part_001 119).
CreateIndexName(table, name) == table \o "_" \o name \o "_" \o "Idx"

\* The index name mysql.AlterTable looks up and adds (part_001 172).
AlterIndexName(table, name) == table \o "_" \o name \o "_" \o "idx"

\* strings.Join on strings.
RECURSIVE JoinStr(_, _)
JoinStr(elems, sep) ==
    IF Len(elems) = 0 THEN ""
    ELSE IF Len(elems) = 1 THEN elems[1]
    ELSE elems[1] \o sep \o JoinStr(Tail(elems), sep)

\* The index name of builder.addIndex (lines 54-58).
AddIndexName(table, fields, idxType) ==
    IF idxType = "unique"
    THEN table \o "_" \o JoinStr(fields, "_") \o "_unique"
    ELSE table \o "_" \o JoinStr(fields, "_") \o "_idx"

Encoding == "utf8mb4"
Collation == "utf8mb4_unicode_ci"

\* mysql.CreateTable (part_001 108-143): the statement it executes.
CreateTable(table, columns) ==
    Stmt(<<"CREATE TABLE IF NOT EXISTS", GetTable(table), "(">>
            \o Flatten([i \in 1..Len(columns) |->
                    <<Quote(columns[i].Name), DataType(columns[i]), ",">>
                        \o (IF columns[i].IsIndexed
                            THEN <<"INDEX", Quote(CreateIndexName(table, columns[i].Name)),
                                   "(", Quote(columns[i].Name), ")", ",">>
                            ELSE <<>>)])
            \o <<"PRIMARY KEY", "(", Quote(pkColumn), ")", ")",
                 "ENGINE=InnoDB DEFAULT CHARSET=", Quote(Encoding),
                 "COLLATE=", Quote(Collation), ";">>,
         <<>>)

\* The names mysql.AlterTable adds an index for: the indexed columns whose
\* name is not among the table's indexes (part_001 171-178).
AddedIndexes(table, columns, idxs) ==
    { AlterIndexName(table, columns[i].Name) :
        i \in {j \in 1..Len(columns) :
                 /\ columns[j].IsIndexed
                 /\ AlterIndexName(table, columns[j].Name) \notin idxs} }

\* The names left in the dictionary of the table's indexes after the loop
\* (part_001 173-174): those no indexed column of the model looked up.
LeftIndexes(table, columns, idxs) ==
    idxs \ { AlterIndexName(table, columns[i].Name) :
                i \in {j \in 1..Len(columns) : columns[j].IsIndexed} }

\* The columns left in the dictionary of the table's columns after the loop.
LeftColumns(columns, cs) ==
    {cs[i] : i \in 1..Len(cs)} \ {columns[i].Name : i \in 1..Len(columns)}

\* dictionary.keys(): the keys of a Go map, in any order.
Keys(S) ==
    { q \in SeqsUpTo(S, Cardinality(S)) :
        Len(q) = Cardinality(S) /\ \A x \in S : \E j \in 1..Len(q) : q[j] = x }

\* mysql.AlterTable (part_001 145-205): the statement it executes for a table
\* with the columns and indexes sch, with the left columns and indexes ranged
\* over in the orders dropCols and dropIdxs.
AlterTable(table, columns, sch, dropCols, dropIdxs) ==
    Stmt(<<"ALTER TABLE", GetTable(table)>>
            \o Flatten([i \in 1..Len(columns) |->
                    <<(IF \E j \in 1..Len(sch.cols) : sch.cols[j] = columns[i].Name
                       THEN "MODIFY" ELSE "ADD"),
                      Quote(columns[i].Name), DataType(columns[i])>>
                        \o (IF i = 1 THEN <<"FIRST">>
                            ELSE <<"AFTER", Quote(columns[i - 1].Name)>>)
                        \o <<",">>
                        \o (IF columns[i].IsIndexed
                                /\ AlterIndexName(table, columns[i].Name) \notin sch.idxs
                            THEN <<"ADD INDEX", Quote(AlterIndexName(table, columns[i].Name)),
                                   "(", Quote(columns[i].Name), ")", ",">>
                            ELSE <<>>)])
            \o Flatten([i \in 1..Len(dropCols) |-> <<"DROP COLUMN", Quote(dropCols[i]), ",">>])
            \o Flatten([i \in 1..Len(dropIdxs) |-> <<"DROP INDEX", Quote(dropIdxs[i]), ",">>])
            \o <<"CHARACTER SET", Quote(Encoding), "COLLATE", Quote(Collation), ";">>,
         <<>>)

\* The table after the engine ran CreateTable.
Created(table, columns) ==
    [exists |-> TRUE,
     cols |-> [i \in 1..Len(columns) |-> columns[i].Name],
     idxs |-> { CreateIndexName(table, columns[i].Name) :
                    i \in {j \in 1..Len(columns) : columns[j].IsIndexed} }]

\* The table after the engine ran AlterTable.
Altered(table, columns, sch) ==
    [exists |-> TRUE,
     cols |-> [i \in 1..Len(columns) |-> columns[i].Name],
     idxs |-> (sch.idxs \cup AddedIndexes(table, columns, sch.idxs))
                \ LeftIndexes(table, columns, sch.idxs)]

\* The models migrated: the key column, then Name and Age, each absent, plain
\* or indexed.
MigrateModels ==
    { OpInput("model", <<SchemaColumn(pkColumn, "varchar(512)", FALSE)>> \o n \o a, TRUE, Table,
              NoSignature) :
        n \in {<<>>, <<SchemaColumn("Name", "varchar(191)", FALSE)>>,
               <<SchemaColumn("Name", "varchar(191)", TRUE)>>},
        a \in {<<>>, <<SchemaColumn("Age", "bigint", FALSE)>>, <<SchemaColumn("Age", "bigint", TRUE)>>} }

MigrateInit ==
    /\ cols = <<>>
    /\ omitFields = {}
    /\ rows = <<>>
    /\ softDelete = FALSE
    /\ scope = <<>>
    /\ arg \in MigrateModels
    /\ mop = "none"
    /\ mret = Pending
    /\ sent = <<>>
    /\ conflict = [called |-> FALSE, cols |-> <<>>]
    /\ populated = FALSE
    /\ dialect = "mysql"
    /\ schema = NoTable
    /\ receiver = DefaultHandle
    /\ returned = NoHandle
    /\ TxIdle
    /\ OpenIdle

\* DB.Migrate -> builder.migrate (lines 314-331) of the one model arg.
Migrate ==
    /\ Len(sent) < MaxStmts
    /\ mop' = "migrate"
    /\ \E entityOk \in BOOLEAN, execOk \in BOOLEAN :
        IF ~entityOk
            THEN mret' = Err("errEntity") /\ UNCHANGED <<sent, schema>>
        ELSE IF schema.exists
            THEN \E dropCols \in Keys(LeftColumns(arg.items, schema.cols)),
                    dropIdxs \in Keys(LeftIndexes(arg.typeName, arg.items, schema.idxs)) :
                    \E x \in {ExecStmt(AlterTable(arg.typeName, arg.items, schema,
                                                  dropCols, dropIdxs), execOk)} :
                        /\ mret' = x.ret
                        /\ sent' = sent \o x.sent
                        /\ schema' = IF execOk THEN Altered(arg.typeName, arg.items, schema)
                                     ELSE schema
        ELSE \E x \in {ExecStmt(CreateTable(arg.typeName, arg.items), execOk)} :
                /\ mret' = x.ret
                /\ sent' = sent \o x.sent
                /\ schema' = IF execOk THEN Created(arg.typeName, arg.items) ELSE schema
    /\ UNCHANGED <<cols, omitFields, rows, softDelete, scope, arg, conflict, populated>>
    /\ UNCHANGED dialect
    /\ UNCHANGED <<receiver, returned>>
    /\ UNCHANGED nonMutVars

\* Table.AddIndex / AddUniqueIndex -> builder.addIndex (lines 50-71).
AddIndex ==
    /\ Len(sent) < MaxStmts
    /\ schema.exists
    /\ mop' = "addIndex"
    /\ \E fields \in {<<"Name">>, <<"Age">>, <<"Name", "Age">>}, idxType \in {"idx", "unique"},
          execOk \in BOOLEAN :
        \E idxName \in {AddIndexName(arg.typeName, fields, idxType)} :
            IF idxName \in schema.idxs
            THEN mret' = Nil /\ UNCHANGED <<sent, schema>>
            ELSE \E x \in {ExecStmt(Stmt(<<"CREATE">>
                                            \o (IF idxType = "unique" THEN <<"UNIQUE">> ELSE <<>>)
                                            \o <<"INDEX", Quote(idxName), "ON",
                                                 GetTable(arg.typeName), "(",
                                                 Quote(JoinStr(fields, ",")), ")", ";">>,
                                         <<>>), execOk)} :
                    /\ mret' = x.ret
                    /\ sent' = sent \o x.sent
                    /\ schema' = IF execOk
                                 THEN [schema EXCEPT !.idxs = schema.idxs \cup {idxName}]
                                 ELSE schema
    /\ UNCHANGED <<cols, omitFields, rows, softDelete, scope, arg, conflict, populated>>
    /\ UNCHANGED dialect
    /\ UNCHANGED <<receiver, returned>>
    /\ UNCHANGED nonMutVars

MigrateNext ==
    \/ Migrate
    \/ AddIndex

SpecMigrate == MigrateInit /\ [][MigrateNext]_vars

\* The statement is the ALTER TABLE of a migration.
IsAlter(s) == Len(s.query) > 0 /\ s.query[1] = "ALTER TABLE"

\* The statement is the CREATE TABLE of a migration.
IsCreate(s) == Len(s.query) > 0 /\ s.query[1] = "CREATE TABLE IF NOT EXISTS"

\* C26: migration is idempotent on indexes: when the table was created from
\* a model and the same model is migrated again, the ALTER TABLE adds no
\* index and drops no index; the name CreateTable gives the index of a column
\* is the name AlterTable and addIndex look up for that column.
C26_MigrateIdempotent ==
    /\ \A i \in 2..Len(sent) :
        (IsCreate(sent[i - 1]) /\ IsAlter(sent[i]))
            => ~\E k \in 1..Len(sent[i].query) :
                    sent[i].query[k] \in {"ADD INDEX", "DROP INDEX"}
    /\ \A i \in 1..Len(arg.items) :
        (mop = "migrate" /\ arg.items[i].IsIndexed)
            => /\ CreateIndexName(arg.typeName, arg.items[i].Name)
                    = AlterIndexName(arg.typeName, arg.items[i].Name)
               /\ CreateIndexName(arg.typeName, arg.items[i].Name)
                    = AddIndexName(arg.typeName, <<arg.items[i].Name>>, "idx")

----------------------------------------------------------------------------
(* DB.Omit and the handle it returns: src/db.go 185-195 and 232-264.       *)

\* A DB.Omit that writes the list into its receiver and returns it.
OmitInPlace(db, fields) ==
    [receiver |-> [db EXCEPT !.omits = DBOmit(fields)],
     returned |-> [db EXCEPT !.omits = DBOmit(fields)]]

\* DB.Omit (src/db.go 233-240): the receiver after the call and the handle
\* returned, a clone of the receiver that carries the list without the key
\* names.
Omit(db, fields) ==
    [receiver |-> db,
     returned |-> Handle(clone(db).client, clone(db).dialect, DBOmit(fields))]

OmitInit ==
    /\ \/ /\ arg = Entities
          /\ rows \in {r \in PutRows : Len(r) <= 1}
       \/ /\ arg = OneEntity
          /\ rows \in {<<[key |-> k, fail |-> "none"]>> : k \in {Key(1), Key(0)}}
    /\ cols \in {<<pkColumn, "Name", "Age">>, <<"Age", "Name", pkColumn>>}
    /\ omitFields = {}
    /\ softDelete = FALSE
    /\ scope = <<>>
    /\ mop = "none"
    /\ mret = Pending
    /\ sent = <<>>
    /\ conflict = [called |-> FALSE, cols |-> <<>>]
    /\ populated = FALSE
    /\ dialect = "mysql"
    /\ schema = NoTable
    /\ receiver \in {Handle(c, "mysql", o) : c \in {"sqlDB", "sqlTx"},
                                             o \in SUBSET {"Name", "Age"}}
    /\ returned = NoHandle
    /\ TxIdle
    /\ OpenIdle

\* db.Omit(fields...) on the receiver, before or after an operation on it.
OmitCall ==
    /\ returned = NoHandle
    /\ \E fields \in OmitLists :
        \E r \in {Omit(receiver, fields)} :
            /\ omitFields' = fields
            /\ receiver' = r.receiver
            /\ returned' = r.returned
    /\ UNCHANGED <<cols, rows, softDelete, scope, arg, mop, mret, sent, conflict, populated>>
    /\ UNCHANGED <<dialect, schema>>
    /\ UNCHANGED nonMutVars

\* DB.Upsert on the receiver (src/db.go 251-256).
UpsertReceiver ==
    /\ arg = Entities
    /\ mop = "none"
    /\ mop' = "upsert"
    /\ upsert(QueryOmit(receiver.omits))

\* DB.Upsert on the handle DB.Omit returned.
UpsertReturned ==
    /\ arg = Entities
    /\ returned # NoHandle
    /\ mop = "none"
    /\ mop' = "omitUpsert"
    /\ upsert(QueryOmit(returned.omits))

\* DB.Save on the receiver (src/db.go 259-264).
SaveReceiver ==
    /\ arg = OneEntity
    /\ mop = "none"
    /\ mop' = "save"
    /\ save(QueryOmit(receiver.omits))

\* DB.Save on the handle DB.Omit returned.
SaveReturned ==
    /\ arg = OneEntity
    /\ returned # NoHandle
    /\ mop = "none"
    /\ mop' = "omitSave"
    /\ save(QueryOmit(returned.omits))

OmitNext ==
    \/ OmitCall
    \/ UpsertReceiver
    \/ UpsertReturned
    \/ SaveReceiver
    \/ SaveReturned

SpecOmit == OmitInit /\ [][OmitNext]_vars

\* The columns a sent UPDATE assigns in its SET clause.
AssignedColumns(q) ==
    { SetClause(q)[i - 1] : i \in {j \in 2..Len(SetClause(q)) : SetClause(q)[j] = "="} }

\* Whether the operation ran with the omission list omits: an upsert updates
\* on conflict the columns the loop of builder.upsert keeps for that list, a
\* save assigns the columns that are not in it.
AppliedOmits(omits) ==
    /\ (mop \in {"upsert", "omitUpsert"} /\ sent # <<>>)
        => conflict.cols = omitLoop(0, Len(cols), cols, Len(cols), omits).cols
    /\ (mop \in {"save", "omitSave"} /\ sent # <<>>)
        => AssignedColumns(sent[1].query)
                = {Quote(cols[i]) : i \in {j \in 1..Len(cols) : cols[j] \notin omits}}

\* C27: DB.Omit leaves its receiver as it was (omission list, connection and
\* dialect), so an Upsert or Save on the receiver, before or after the call,
\* applies the receiver's own list; the handle returned has the receiver's
\* connection and dialect and carries the list handed to Omit without the
\* key names, and an Upsert or Save on it applies that list.
C27_OmitLeavesReceiver ==
    /\ [][receiver' = receiver]_vars
    /\ [](/\ mop \in {"upsert", "save"} => AppliedOmits(receiver.omits)
          /\ returned # NoHandle
                => /\ returned.omits = omitFields \ {keyFieldName, pkColumn}
                   /\ returned.client = receiver.client
                   /\ returned.dialect = receiver.dialect
          /\ mop \in {"omitUpsert", "omitSave"} => AppliedOmits(returned.omits))

C27_Witness ==
    /\ returned # NoHandle
    /\ omitFields = {"Name", keyFieldName}
    /\ returned.omits = {"Name"}
    /\ receiver.omits = {"Age"}
    /\ receiver.client = "sqlTx"
    /\ mop = "upsert"
    /\ sent # <<>>
    /\ \E i \in 1..Len(conflict.cols) : conflict.cols[i] = "Name"
    /\ ~\E i \in 1..Len(conflict.cols) : conflict.cols[i] = "Age"

====
